---- MODULE Spec2Model ----
(***************************************************************************)
(* Storage Transfer Engine: the local -> block blob upload of one transfer, *)
(* and the client's handlers that talk to the engine.                      *)
(*                                                                         *)
(* The repository holds two revisions of the chunk function:               *)
(*   "part_000"  generateUploadFunc (progressCount, updateTransferStatus)  *)
(*   "part_003"  localToBlockBlob.generateUploadFunc (TransferMsg methods) *)
(* and a later, sender-independent prologue:                               *)
(*   "part_004"  anyToRemote (IJobPartTransferMgr, senders)                *)
(* The variable revision fixes which one the engine was built from.        *)
(*                                                                         *)
(* Specifications:                                                         *)
(*   Spec          one transfer of part_000 / part_003 with its workers    *)
(*   SpecPrologue  the three prologues over a wider range of sizes, the    *)
(*                 chunk functions left out                                *)
(*   SpecBlockSize the prologues of part_003 / part_004 with a block size  *)
(*                 of zero among the inputs                                *)
(*   SpecClient    the client's list / cancel / pause / resume handlers    *)
(*                 and its requests to the engine                          *)
(*   SpecCopy      the client's copy handler cutting a job in parts        *)
(*   SpecEnumerator  the base of the service-to-service copy enumerators   *)
(*                 preparing the destination                               *)
(***************************************************************************)
EXTENDS Integers, Sequences, FiniteSets, TLC

(* ---- bounds of the model ---- *)
MaxSourceSize == 3
MaxBlockSize == 2
NumWorkers == 2
ChanCap == 2
MaxPrologueSourceSize == 5
MaxPrologueBlockSize == 3
MaxCommands == 2
MaxFiles == 6
MaxSegments == 3
MaxBlobsPerSegment == 2
MaxPolls == 2
MaxCalls == 3

(* ---- program constants ---- *)
TransferInProgress == 0
TransferComplete == 1
TransferFailed == 2
ChunkTransferStatusInactive == 0
ChunkTransferStatusComplete == 3
ChunkTransferStatusFailed == 4
TransferAny == 254
TranferStatusAll == 254
MaxUint8 == 255
StatusAccepted == 202
Panic == -1
NumOfFilesPerUploadJobPart == 2

Revisions == {"part_000", "part_003"}
Workers == 1 .. NumWorkers
NoId == <<>>
NoMsg == [chunkId |-> -1, startIndex |-> 0, chunkSize |-> 0]
NoCommand == [verb |-> "none", jobId |-> "", transferStatus |-> ""]
NoListOrder == [JobId |-> "", ExpectedTransferStatus |-> 0]
NoCopyInput == [SourceType |-> "", DestinationType |-> "", IsDir |-> FALSE,
                files |-> <<>>, segments |-> <<>>, sourcePathParts |-> 0,
                IsaBackgroundOp |-> FALSE]
NoJobPartOrder == [ID |-> "", PartNum |-> 0, IsFinalPart |-> FALSE, Transfers |-> <<>>]

VARIABLES
    revision,        \* which revision of the chunk function is built in
    blobSize,        \* size of the source file
    chunkSize,       \* block size of the transfer
    numOfBlocks,     \* number of chunks the transfer expects
    prologuePc,      \* position of the prologue
    startIndex,      \* prologue loop variable: offset of the next chunk
    blockIdCount,    \* prologue loop variable: index of the next chunk
    chunkChannel,    \* chunk messages in flight to the workers
    pc,              \* position of each worker inside the chunk function
    msg,             \* the closure each worker is running
    encodedBlockId,  \* the closure's local block id
    ctxErr,          \* the transfer's cancel token is tripped
    status,          \* the transfer's status in the plan
    chunksDone,      \* the transfer's chunks-done counter
    transfersDone,   \* number of TransferDone reports
    blockIds,        \* the block-id vector shared by the closures
    unmapCalls,      \* number of Unmap calls on the source mapping
    chunkStatus,     \* per-chunk status slots of the plan
    currentBytes,    \* throughput counter
    nextUUID,        \* UUID generator
    putBlockIds,     \* remote: the id each chunk passed to put_block
    putBlockLists,   \* remote: the lists passed to put_block_list
    putBlobs,        \* remote: number of put_blob calls
    cancelRequested, \* history: a cancel request tripped the token
    cancelBeforeLastChunk, \* history: the request came before the last chunk was counted
    putBlockFailed,  \* history: chunks whose put_block returned an error
    putBlockListFailed, \* history: a put_block_list returned an error
    startedAfterTrip,   \* history: closures started with the token tripped
    trippedWithUnstarted, \* history: the token tripped with a closure not yet started
    epilogueRuns,    \* history: closures that took the last-chunk branch
    sourceMutated,   \* the file's size at prologue time differs from the plan's source_size
    scheduled,       \* history: the chunk messages the prologue enqueued, in order
    putBlobResult,   \* history: "none", or how the put_blob call returned ("ok", "err")
    forceWrite,      \* part_004: the transfer's force-write flag
    jptmStatus,      \* part_004: the transfer's status as jptm holds it ("NotSet": not
                     \* started, no status was ever set)
    numberOfChunks,  \* part_004: the count given to jptm.SetNumberOfChunks (-1: none)
    actionAfterLastChunk, \* part_004: jptm.SetActionAfterLastChunk was called
    prologueCalls,   \* part_004: the calls of the sender's Prologue, each with the
                     \* number of chunks scheduled before it
    existence,       \* part_004: the results of the calls of s.RemoteFileExists
    clientPc,        \* client: position of the handler being run
    command,         \* client: the command line being handled
    listOrder,       \* client: the list order HandleListCommand built
    requests,        \* client: the HTTP requests sent to the engine, in order
    outcomes,        \* client: what each finished command did with its response
    commandsRun,     \* client: number of commands started
    copyPc,          \* copy: position of HandleCopyCommand
    commandLineInput, \* copy: the copy command line and what it names
    fileIndex,       \* copy: index of the directory entry / blob segment being looked at
    Transfers,       \* copy: the transfers collected for the next part
    numInTransfers,  \* copy: the directory upload's count of collected transfers
    partNumber,      \* copy: number of the next part
    jobPartOrder,    \* copy: the one CopyJobPartOrder the handler fills and dispatches
    polls,           \* copy: number of progress polls made
    FromTo,          \* enumerator: the copy's source and destination kinds
    destBlobPipeline, \* enumerator: the pipeline for destination operations ("nil": not set)
    calls            \* enumerator: the calls made on it so far, each with its result

transferVars == <<revision, blobSize, chunkSize, numOfBlocks, sourceMutated>>
prologueVars == <<prologuePc, startIndex, blockIdCount>>
localVars == <<msg, encodedBlockId>>
planVars == <<status, chunkStatus>>
remoteVars == <<putBlockIds, putBlockLists, putBlobs>>
cancelVars == <<cancelRequested, cancelBeforeLastChunk>>
histVars == <<cancelVars, putBlockFailed, putBlockListFailed,
              startedAfterTrip, trippedWithUnstarted, epilogueRuns>>
jptmVars == <<forceWrite, jptmStatus, numberOfChunks, actionAfterLastChunk,
              prologueCalls, existence>>
clientVars == <<clientPc, command, listOrder, requests, outcomes, commandsRun>>
copyVars == <<copyPc, commandLineInput, fileIndex, Transfers, numInTransfers,
              partNumber, jobPartOrder, polls>>
enumVars == <<FromTo, destBlobPipeline, calls>>

vars == <<transferVars, prologueVars, chunkChannel, pc, localVars, ctxErr,
          planVars, chunksDone, transfersDone, blockIds, unmapCalls,
          currentBytes, nextUUID, remoteVars, histVars, scheduled, putBlobResult,
          jptmVars, clientVars, copyVars, enumVars>>

\* everything but the client's variables
engineVars == <<transferVars, prologueVars, chunkChannel, pc, localVars, ctxErr,
                planVars, chunksDone, transfersDone, blockIds, unmapCalls,
                currentBytes, nextUUID, remoteVars, histVars, scheduled, putBlobResult,
                jptmVars, enumVars>>

(* ---- helpers ---- *)

\* number of chunks of a source of size S cut in blocks of size B
computeNumOfChunks(S, B) == (S + B - 1) \div B

\* common.NewUUID followed by base64.StdEncoding.EncodeToString
EncodeToString(u) == <<"base64", u>>

ChunkIds == 0 .. (numOfBlocks - 1)

\* the closures the workers have received so far
Started == {c \in ChunkIds : c < blockIdCount /\ \A i \in 1 .. Len(chunkChannel) : chunkChannel[i].chunkId # c}

Goto(w, l) == pc' = [pc EXCEPT ![w] = l]

\* the closure returns to the worker loop
Return(w) == /\ pc' = [pc EXCEPT ![w] = "idle"]
             /\ msg' = [msg EXCEPT ![w] = NoMsg]
             /\ encodedBlockId' = [encodedBlockId EXCEPT ![w] = NoId]

\* the client before any command is run
ClientStart ==
    /\ clientPc = "idle"
    /\ command = NoCommand
    /\ listOrder = NoListOrder
    /\ requests = <<>>
    /\ outcomes = <<>>
    /\ commandsRun = 0

\* the copy handler before a copy command is given
CopyStart ==
    /\ copyPc = "idle"
    /\ commandLineInput = NoCopyInput
    /\ fileIndex = 0
    /\ Transfers = <<>>
    /\ numInTransfers = 0
    /\ partNumber = 0
    /\ jobPartOrder = NoJobPartOrder
    /\ polls = 0

\* no enumerator was made
EnumStart ==
    /\ FromTo = ""
    /\ destBlobPipeline = "nil"
    /\ calls = <<>>

\* the transfer manager of part_004 before anyToRemote runs
JptmStart ==
    /\ jptmStatus \in IF revision = "part_004" THEN {"NotSet", "Started"} ELSE {"NotSet"}
    /\ numberOfChunks = -1
    /\ actionAfterLastChunk = FALSE
    /\ prologueCalls = <<>>
    /\ existence = <<>>

\* one transfer of the plan before its prologue runs
TransferStart ==
    /\ startIndex = 0
    /\ blockIdCount = 0
    /\ chunkChannel = <<>>
    /\ pc = [w \in Workers |-> "idle"]
    /\ msg = [w \in Workers |-> NoMsg]
    /\ encodedBlockId = [w \in Workers |-> NoId]
    /\ ctxErr = FALSE
    /\ status = TransferInProgress
    /\ chunksDone = 0
    /\ transfersDone = 0
    /\ blockIds = [c \in ChunkIds |-> NoId]
    /\ unmapCalls = 0
    /\ chunkStatus = [c \in ChunkIds |-> ChunkTransferStatusInactive]
    /\ currentBytes = 0
    /\ nextUUID = 1
    /\ putBlockIds = [c \in ChunkIds |-> NoId]
    /\ putBlockLists = <<>>
    /\ putBlobs = 0
    /\ cancelRequested = FALSE
    /\ cancelBeforeLastChunk = FALSE
    /\ putBlockFailed = {}
    /\ putBlockListFailed = FALSE
    /\ startedAfterTrip = {}
    /\ trippedWithUnstarted = FALSE
    /\ epilogueRuns = 0
    /\ scheduled = <<>>
    /\ putBlobResult = "none"

Init ==
    /\ revision \in Revisions
    /\ blobSize \in 1 .. MaxSourceSize
    /\ chunkSize \in 1 .. MaxBlockSize
    /\ numOfBlocks = computeNumOfChunks(blobSize, chunkSize)
    /\ sourceMutated = FALSE
    /\ forceWrite = TRUE
    /\ prologuePc = "start"
    /\ TransferStart
    /\ JptmStart
    /\ ClientStart
    /\ CopyStart
    /\ EnumStart

(* ---- the cancel token ---- *)

\* the token goes from untripped to tripped (a later trip changes nothing)
Trip ==
    /\ ctxErr' = TRUE
    /\ trippedWithUnstarted' = (trippedWithUnstarted \/ (~ctxErr /\ Started # ChunkIds))

\* a cancel (or pause) request for the job trips the transfer's token
CancelJob ==
    /\ ~cancelRequested
    /\ cancelRequested' = TRUE
    /\ cancelBeforeLastChunk' = (chunksDone < numOfBlocks)
    /\ Trip
    /\ UNCHANGED <<transferVars, prologueVars, chunkChannel, pc, localVars, planVars,
                   chunksDone, transfersDone, blockIds, unmapCalls, currentBytes,
                   nextUUID, remoteVars, putBlockFailed, putBlockListFailed,
                   startedAfterTrip, epilogueRuns>>
    /\ UNCHANGED <<scheduled, putBlobResult, jptmVars, clientVars, copyVars, enumVars>>

(* ---- prologue: part_003 lines 37-103, part_000 lines 23-79 ---- *)

\* faulty variant: step 4.a with the fast path taken only below the block size
prologue_start_strict ==
    /\ prologuePc = "start"
    /\ prologuePc' = IF revision = "part_003" /\ blobSize < chunkSize
                     THEN "putBlob" ELSE "schedule"
    /\ UNCHANGED <<transferVars, startIndex, blockIdCount, chunkChannel, pc, localVars,
                   ctxErr, planVars, chunksDone, transfersDone, blockIds, unmapCalls,
                   currentBytes, nextUUID, remoteVars, histVars>>
    /\ UNCHANGED <<scheduled, putBlobResult, jptmVars, clientVars, copyVars, enumVars>>

\* step 4.a: the fast path exists in part_003 only
prologue_start ==
    /\ prologuePc = "start"
    /\ prologuePc' = IF revision = "part_003" /\ blobSize <= chunkSize
                     THEN "putBlob" ELSE "schedule"
    /\ UNCHANGED <<transferVars, startIndex, blockIdCount, chunkChannel, pc, localVars,
                   ctxErr, planVars, chunksDone, transfersDone, blockIds, unmapCalls,
                   currentBytes, nextUUID, remoteVars, histVars>>
    /\ UNCHANGED <<scheduled, putBlobResult, jptmVars, clientVars, copyVars, enumVars>>

\* faulty variant: step 5 with the last chunk not cut to the end of the file
prologue_schedule_unadjusted ==
    /\ prologuePc = "schedule"
    /\ startIndex < blobSize
    /\ blockIdCount <= blobSize
    /\ Len(chunkChannel) < ChanCap
    /\ LET adjustedChunkSize == chunkSize
           chunkMsg == [chunkId |-> blockIdCount,
                        startIndex |-> startIndex,
                        chunkSize |-> adjustedChunkSize]
       IN /\ chunkChannel' = Append(chunkChannel, chunkMsg)
          /\ scheduled' = Append(scheduled, chunkMsg)
    /\ startIndex' = startIndex + chunkSize
    /\ blockIdCount' = blockIdCount + 1
    /\ UNCHANGED <<transferVars, prologuePc, pc, localVars, ctxErr, planVars, chunksDone,
                   transfersDone, blockIds, unmapCalls, currentBytes, nextUUID,
                   remoteVars, histVars>>
    /\ UNCHANGED <<putBlobResult, jptmVars, clientVars, copyVars, enumVars>>

\* step 5: one iteration of the scheduling loop; the send blocks on a full channel.
\* The loop is followed for blobSize + 1 iterations, which is more than any block
\* size above zero needs.
prologue_schedule ==
    /\ prologuePc = "schedule"
    /\ startIndex < blobSize
    /\ blockIdCount <= blobSize
    /\ Len(chunkChannel) < ChanCap
    /\ LET adjustedChunkSize == IF startIndex + chunkSize > blobSize
                                THEN blobSize - startIndex ELSE chunkSize
           chunkMsg == [chunkId |-> blockIdCount,
                        startIndex |-> startIndex,
                        chunkSize |-> adjustedChunkSize]
       IN /\ chunkChannel' = Append(chunkChannel, chunkMsg)
          /\ scheduled' = Append(scheduled, chunkMsg)
    /\ startIndex' = startIndex + chunkSize
    /\ blockIdCount' = blockIdCount + 1
    /\ UNCHANGED <<transferVars, prologuePc, pc, localVars, ctxErr, planVars, chunksDone,
                   transfersDone, blockIds, unmapCalls, currentBytes, nextUUID,
                   remoteVars, histVars>>
    /\ UNCHANGED <<putBlobResult, jptmVars, clientVars, copyVars, enumVars>>

\* the loop ends and the prologue returns
prologue_return ==
    /\ prologuePc = "schedule"
    /\ startIndex >= blobSize
    /\ prologuePc' = "done"
    /\ UNCHANGED <<transferVars, startIndex, blockIdCount, chunkChannel, pc, localVars,
                   ctxErr, planVars, chunksDone, transfersDone, blockIds, unmapCalls,
                   currentBytes, nextUUID, remoteVars, histVars>>
    /\ UNCHANGED <<scheduled, putBlobResult, jptmVars, clientVars, copyVars, enumVars>>

(* ---- putBlob: part_003 lines 210-241 ---- *)

\* line 216: PutBlob under the transfer's context; a tripped context fails the call
putBlob_PutBlob ==
    /\ prologuePc = "putBlob"
    /\ putBlobs' = putBlobs + 1
    /\ \E err \in BOOLEAN :
          /\ ctxErr => err
          /\ prologuePc' = IF err THEN "putBlob_failed" ELSE "putBlob_ok"
          /\ putBlobResult' = IF err THEN "err" ELSE "ok"
    /\ UNCHANGED <<transferVars, startIndex, blockIdCount, chunkChannel, pc, localVars,
                   ctxErr, planVars, chunksDone, transfersDone, blockIds, unmapCalls,
                   currentBytes, nextUUID, putBlockIds, putBlockLists, histVars>>
    /\ UNCHANGED <<scheduled, jptmVars, clientVars, copyVars, enumVars>>

\* lines 219-227: the status follows the result
putBlob_TransferStatus ==
    /\ prologuePc \in {"putBlob_failed", "putBlob_ok"}
    /\ status' = IF prologuePc = "putBlob_failed" THEN TransferFailed ELSE TransferComplete
    /\ prologuePc' = "putBlob_done"
    /\ UNCHANGED <<transferVars, startIndex, blockIdCount, chunkChannel, pc, localVars,
                   ctxErr, chunkStatus, chunksDone, transfersDone, blockIds, unmapCalls,
                   currentBytes, nextUUID, remoteVars, histVars>>
    /\ UNCHANGED <<scheduled, putBlobResult, jptmVars, clientVars, copyVars, enumVars>>

\* line 230
putBlob_TransferDone ==
    /\ prologuePc = "putBlob_done"
    /\ transfersDone' = transfersDone + 1
    /\ prologuePc' = "putBlob_unmap"
    /\ UNCHANGED <<transferVars, startIndex, blockIdCount, chunkChannel, pc, localVars,
                   ctxErr, planVars, chunksDone, blockIds, unmapCalls,
                   currentBytes, nextUUID, remoteVars, histVars>>
    /\ UNCHANGED <<scheduled, putBlobResult, jptmVars, clientVars, copyVars, enumVars>>

\* line 237
putBlob_Unmap ==
    /\ prologuePc = "putBlob_unmap"
    /\ unmapCalls' = unmapCalls + 1
    /\ prologuePc' = "done"
    /\ UNCHANGED <<transferVars, startIndex, blockIdCount, chunkChannel, pc, localVars,
                   ctxErr, planVars, chunksDone, transfersDone, blockIds,
                   currentBytes, nextUUID, remoteVars, histVars>>
    /\ UNCHANGED <<scheduled, putBlobResult, jptmVars, clientVars, copyVars, enumVars>>

(* ---- worker loop ---- *)

\* a worker takes the next chunk message and invokes its closure. The workers are
\* interchangeable (the closure uses workerId in log lines only), so of the idle
\* workers the one of lowest index receives: every run has a run of this shape that
\* differs from it by a renaming of the workers
worker_receive(w) ==
    /\ pc[w] = "idle"
    /\ \A v \in Workers : v < w => pc[v] # "idle"
    /\ chunkChannel # <<>>
    /\ msg' = [msg EXCEPT ![w] = Head(chunkChannel)]
    /\ chunkChannel' = Tail(chunkChannel)
    /\ Goto(w, IF revision = "part_003" THEN "L111" ELSE "R89")
    /\ startedAfterTrip' = IF ctxErr THEN startedAfterTrip \cup {Head(chunkChannel).chunkId}
                           ELSE startedAfterTrip
    /\ UNCHANGED <<transferVars, prologueVars, encodedBlockId, ctxErr, planVars,
                   chunksDone, transfersDone, blockIds, unmapCalls, currentBytes,
                   nextUUID, remoteVars, cancelVars, putBlockFailed,
                   putBlockListFailed, trippedWithUnstarted, epilogueRuns>>
    /\ UNCHANGED <<scheduled, putBlobResult, jptmVars, clientVars, copyVars, enumVars>>

(* ---- TransferMsg methods used by the chunk function ---- *)

\* t.ChunksDone(): atomically increments the transfer's counter, returns the new value
ChunksDone(n) == n + 1

\* atomic.AddUint32(progressCount, delta): returns the new value; the counter stays
\* far below 2^32 (at most one increment per chunk), so it never wraps
AddUint32(n, delta) == n + delta

\* the closure that counted the last chunk goes on to finalize at l; the others return
LastChunk(w, count, l) ==
    IF count = numOfBlocks
    THEN /\ Goto(w, l)
         /\ epilogueRuns' = epilogueRuns + 1
         /\ UNCHANGED localVars
    ELSE /\ Return(w)
         /\ UNCHANGED epilogueRuns

\* *blockIds as put_block_list receives it
BlockList == [i \in 1 .. numOfBlocks |-> blockIds[i - 1]]

(* ---- localToBlockBlob.generateUploadFunc: part_003 lines 106-208 ---- *)

\* line 111: is the transfer's context cancelled?
uploadFunc_checkCancelled(w) ==
    /\ pc[w] = "L111"
    /\ Goto(w, IF ctxErr THEN "L113" ELSE "L120")
    /\ UNCHANGED <<transferVars, prologuePc, startIndex, blockIdCount, chunkChannel, msg,
                   encodedBlockId, ctxErr, status, chunkStatus, chunksDone, transfersDone,
                   blockIds, unmapCalls, currentBytes, nextUUID, putBlockIds,
                   putBlockLists, putBlobs, cancelVars, putBlockFailed,
                   putBlockListFailed, startedAfterTrip, trippedWithUnstarted,
                   epilogueRuns>>
    /\ UNCHANGED <<scheduled, putBlobResult, jptmVars, clientVars, copyVars, enumVars>>

\* line 113: a skipped chunk is counted
uploadFunc_skipped_ChunksDone(w) ==
    /\ pc[w] = "L113"
    /\ chunksDone' = ChunksDone(chunksDone)
    /\ LastChunk(w, chunksDone', "L116")
    /\ UNCHANGED <<transferVars, prologuePc, startIndex, blockIdCount, chunkChannel,
                   ctxErr, status, chunkStatus, transfersDone, blockIds, unmapCalls,
                   currentBytes, nextUUID, putBlockIds, putBlockLists, putBlobs,
                   cancelVars, putBlockFailed, putBlockListFailed, startedAfterTrip,
                   trippedWithUnstarted>>
    /\ UNCHANGED <<scheduled, putBlobResult, jptmVars, clientVars, copyVars, enumVars>>

\* line 116: the last skipped chunk finalizes the cancellation
uploadFunc_skipped_TransferDone(w) ==
    /\ pc[w] = "L116"
    /\ transfersDone' = transfersDone + 1
    /\ Return(w)
    /\ UNCHANGED <<transferVars, prologuePc, startIndex, blockIdCount, chunkChannel,
                   ctxErr, status, chunkStatus, chunksDone, blockIds, unmapCalls,
                   currentBytes, nextUUID, putBlockIds, putBlockLists, putBlobs,
                   cancelVars, putBlockFailed, putBlockListFailed, startedAfterTrip,
                   trippedWithUnstarted, epilogueRuns>>
    /\ UNCHANGED <<scheduled, putBlobResult, jptmVars, clientVars, copyVars, enumVars>>

\* faulty variant: lines 120-124 with the id saved at position 0 instead of the chunk's own
uploadFunc_saveBlockIdAtZero(w) ==
    /\ pc[w] = "L120"
    /\ nextUUID' = nextUUID + 1
    /\ encodedBlockId' = [encodedBlockId EXCEPT ![w] = EncodeToString(nextUUID)]
    /\ blockIds' = [blockIds EXCEPT ![0] = EncodeToString(nextUUID)]
    /\ Goto(w, "L130")
    /\ UNCHANGED <<transferVars, prologuePc, startIndex, blockIdCount, chunkChannel, msg,
                   ctxErr, status, chunkStatus, chunksDone, transfersDone, unmapCalls,
                   currentBytes, putBlockIds, putBlockLists, putBlobs, cancelVars,
                   putBlockFailed, putBlockListFailed, startedAfterTrip,
                   trippedWithUnstarted, epilogueRuns>>
    /\ UNCHANGED <<scheduled, putBlobResult, jptmVars, clientVars, copyVars, enumVars>>

\* lines 120-124: a fresh block id is generated and saved at the chunk's position
uploadFunc_saveBlockId(w) ==
    /\ pc[w] = "L120"
    /\ nextUUID' = nextUUID + 1
    /\ encodedBlockId' = [encodedBlockId EXCEPT ![w] = EncodeToString(nextUUID)]
    /\ blockIds' = [blockIds EXCEPT ![msg[w].chunkId] = EncodeToString(nextUUID)]
    /\ Goto(w, "L130")
    /\ UNCHANGED <<transferVars, prologuePc, startIndex, blockIdCount, chunkChannel, msg,
                   ctxErr, status, chunkStatus, chunksDone, transfersDone, unmapCalls,
                   currentBytes, putBlockIds, putBlockLists, putBlobs, cancelVars,
                   putBlockFailed, putBlockListFailed, startedAfterTrip,
                   trippedWithUnstarted, epilogueRuns>>
    /\ UNCHANGED <<scheduled, putBlobResult, jptmVars, clientVars, copyVars, enumVars>>

\* line 130: PutBlock is issued; under a tripped context it fails at once
uploadFunc_PutBlock(w) ==
    /\ pc[w] = "L130"
    /\ putBlockIds' = [putBlockIds EXCEPT ![msg[w].chunkId] = encodedBlockId[w]]
    /\ IF ctxErr
       THEN /\ Goto(w, "L134")
            /\ putBlockFailed' = putBlockFailed \cup {msg[w].chunkId}
       ELSE /\ Goto(w, "L130_wait")
            /\ UNCHANGED putBlockFailed
    /\ UNCHANGED <<transferVars, prologuePc, startIndex, blockIdCount, chunkChannel, msg,
                   encodedBlockId, ctxErr, status, chunkStatus, chunksDone, transfersDone,
                   blockIds, unmapCalls, currentBytes, nextUUID, putBlockLists, putBlobs,
                   cancelVars, putBlockListFailed, startedAfterTrip,
                   trippedWithUnstarted, epilogueRuns>>
    /\ UNCHANGED <<scheduled, putBlobResult, jptmVars, clientVars, copyVars, enumVars>>

\* line 130: PutBlock returns, with or without an error
uploadFunc_PutBlock_returns(w) ==
    /\ pc[w] = "L130_wait"
    /\ \E err \in BOOLEAN :
          IF err
          THEN /\ Goto(w, "L134")
               /\ putBlockFailed' = putBlockFailed \cup {msg[w].chunkId}
          ELSE /\ Goto(w, "L163")
               /\ UNCHANGED putBlockFailed
    /\ UNCHANGED <<transferVars, prologuePc, startIndex, blockIdCount, chunkChannel, msg,
                   encodedBlockId, ctxErr, status, chunkStatus, chunksDone, transfersDone,
                   blockIds, unmapCalls, currentBytes, nextUUID, putBlockIds,
                   putBlockLists, putBlobs, cancelVars, putBlockListFailed,
                   startedAfterTrip, trippedWithUnstarted, epilogueRuns>>
    /\ UNCHANGED <<scheduled, putBlobResult, jptmVars, clientVars, copyVars, enumVars>>

\* faulty variant: line 134 with the cancel call left out
uploadFunc_failed_noCancel(w) ==
    /\ pc[w] = "L134"
    /\ Goto(w, "L140")
    /\ UNCHANGED <<transferVars, prologuePc, startIndex, blockIdCount, chunkChannel, msg,
                   encodedBlockId, ctxErr, status, chunkStatus, chunksDone, transfersDone,
                   blockIds, unmapCalls, currentBytes, nextUUID, putBlockIds,
                   putBlockLists, putBlobs, cancelVars, putBlockFailed, putBlockListFailed,
                   startedAfterTrip, trippedWithUnstarted, epilogueRuns>>
    /\ UNCHANGED <<scheduled, putBlobResult, jptmVars, clientVars, copyVars, enumVars>>

\* line 134: the failed chunk cancels the transfer
uploadFunc_failed_TransferCancelFunc(w) ==
    /\ pc[w] = "L134"
    /\ Trip
    /\ Goto(w, "L140")
    /\ UNCHANGED <<transferVars, prologuePc, startIndex, blockIdCount, chunkChannel, msg,
                   encodedBlockId, status, chunkStatus, chunksDone, transfersDone,
                   blockIds, unmapCalls, currentBytes, nextUUID, putBlockIds,
                   putBlockLists, putBlobs, cancelVars, putBlockFailed,
                   putBlockListFailed, startedAfterTrip, epilogueRuns>>
    /\ UNCHANGED <<scheduled, putBlobResult, jptmVars, clientVars, copyVars, enumVars>>

\* line 140
uploadFunc_failed_TransferStatus(w) ==
    /\ pc[w] = "L140"
    /\ status' = TransferFailed
    /\ Goto(w, "L142")
    /\ UNCHANGED <<transferVars, prologuePc, startIndex, blockIdCount, chunkChannel, msg,
                   encodedBlockId, ctxErr, chunkStatus, chunksDone, transfersDone,
                   blockIds, unmapCalls, currentBytes, nextUUID, putBlockIds,
                   putBlockLists, putBlobs, cancelVars, putBlockFailed,
                   putBlockListFailed, startedAfterTrip, trippedWithUnstarted,
                   epilogueRuns>>
    /\ UNCHANGED <<scheduled, putBlobResult, jptmVars, clientVars, copyVars, enumVars>>

\* faulty variant: line 142 with the last-chunk test left out, every failed chunk
\* goes on to report and unmap
uploadFunc_failed_ChunksDone_finalizes(w) ==
    /\ pc[w] = "L142"
    /\ chunksDone' = ChunksDone(chunksDone)
    /\ Goto(w, "L145")
    /\ epilogueRuns' = epilogueRuns + 1
    /\ UNCHANGED <<transferVars, prologuePc, startIndex, blockIdCount, chunkChannel,
                   localVars, ctxErr, status, chunkStatus, transfersDone, blockIds,
                   unmapCalls, currentBytes, nextUUID, putBlockIds, putBlockLists,
                   putBlobs, cancelVars, putBlockFailed, putBlockListFailed,
                   startedAfterTrip, trippedWithUnstarted>>
    /\ UNCHANGED <<scheduled, putBlobResult, jptmVars, clientVars, copyVars, enumVars>>

\* line 142: a failed chunk is counted
uploadFunc_failed_ChunksDone(w) ==
    /\ pc[w] = "L142"
    /\ chunksDone' = ChunksDone(chunksDone)
    /\ LastChunk(w, chunksDone', "L145")
    /\ UNCHANGED <<transferVars, prologuePc, startIndex, blockIdCount, chunkChannel,
                   ctxErr, status, chunkStatus, transfersDone, blockIds, unmapCalls,
                   currentBytes, nextUUID, putBlockIds, putBlockLists, putBlobs,
                   cancelVars, putBlockFailed, putBlockListFailed, startedAfterTrip,
                   trippedWithUnstarted>>
    /\ UNCHANGED <<scheduled, putBlobResult, jptmVars, clientVars, copyVars, enumVars>>

\* line 145
uploadFunc_failed_TransferDone(w) ==
    /\ pc[w] = "L145"
    /\ transfersDone' = transfersDone + 1
    /\ Goto(w, "L147")
    /\ UNCHANGED <<transferVars, prologuePc, startIndex, blockIdCount, chunkChannel, msg,
                   encodedBlockId, ctxErr, status, chunkStatus, chunksDone, blockIds,
                   unmapCalls, currentBytes, nextUUID, putBlockIds, putBlockLists,
                   putBlobs, cancelVars, putBlockFailed, putBlockListFailed,
                   startedAfterTrip, trippedWithUnstarted, epilogueRuns>>
    /\ UNCHANGED <<scheduled, putBlobResult, jptmVars, clientVars, copyVars, enumVars>>

\* line 147
uploadFunc_failed_Unmap(w) ==
    /\ pc[w] = "L147"
    /\ unmapCalls' = unmapCalls + 1
    /\ Return(w)
    /\ UNCHANGED <<transferVars, prologuePc, startIndex, blockIdCount, chunkChannel,
                   ctxErr, status, chunkStatus, chunksDone, transfersDone, blockIds,
                   currentBytes, nextUUID, putBlockIds, putBlockLists, putBlobs,
                   cancelVars, putBlockFailed, putBlockListFailed, startedAfterTrip,
                   trippedWithUnstarted, epilogueRuns>>
    /\ UNCHANGED <<scheduled, putBlobResult, jptmVars, clientVars, copyVars, enumVars>>

\* faulty variant: the counter grows by the transfer's block size
uploadFunc_updateCurrentBytes_blockSize(w) ==
    /\ pc[w] = "L163"
    /\ currentBytes' = currentBytes + chunkSize
    /\ Goto(w, "L166")
    /\ UNCHANGED <<transferVars, prologuePc, startIndex, blockIdCount, chunkChannel, msg,
                   encodedBlockId, ctxErr, status, chunkStatus, chunksDone, transfersDone,
                   blockIds, unmapCalls, nextUUID, putBlockIds, putBlockLists, putBlobs,
                   cancelVars, putBlockFailed, putBlockListFailed, startedAfterTrip,
                   trippedWithUnstarted, epilogueRuns>>
    /\ UNCHANGED <<scheduled, putBlobResult, jptmVars, clientVars, copyVars, enumVars>>

\* line 163: the throughput counter grows by the chunk's size
uploadFunc_updateCurrentBytes(w) ==
    /\ pc[w] = "L163"
    /\ currentBytes' = currentBytes + msg[w].chunkSize
    /\ Goto(w, "L166")
    /\ UNCHANGED <<transferVars, prologuePc, startIndex, blockIdCount, chunkChannel, msg,
                   encodedBlockId, ctxErr, status, chunkStatus, chunksDone, transfersDone,
                   blockIds, unmapCalls, nextUUID, putBlockIds, putBlockLists, putBlobs,
                   cancelVars, putBlockFailed, putBlockListFailed, startedAfterTrip,
                   trippedWithUnstarted, epilogueRuns>>
    /\ UNCHANGED <<scheduled, putBlobResult, jptmVars, clientVars, copyVars, enumVars>>

\* line 166: a successful chunk is counted
uploadFunc_ChunksDone(w) ==
    /\ pc[w] = "L166"
    /\ chunksDone' = ChunksDone(chunksDone)
    /\ LastChunk(w, chunksDone', "L168")
    /\ UNCHANGED <<transferVars, prologuePc, startIndex, blockIdCount, chunkChannel,
                   ctxErr, status, chunkStatus, transfersDone, blockIds, unmapCalls,
                   currentBytes, nextUUID, putBlockIds, putBlockLists, putBlobs,
                   cancelVars, putBlockFailed, putBlockListFailed, startedAfterTrip,
                   trippedWithUnstarted>>
    /\ UNCHANGED <<scheduled, putBlobResult, jptmVars, clientVars, copyVars, enumVars>>

\* faulty variant: line 168 with the cancellation check left out
uploadFunc_commitWithoutCheck(w) ==
    /\ pc[w] = "L168"
    /\ Goto(w, "L181")
    /\ UNCHANGED <<transferVars, prologuePc, startIndex, blockIdCount, chunkChannel, msg,
                   encodedBlockId, ctxErr, status, chunkStatus, chunksDone, transfersDone,
                   blockIds, unmapCalls, currentBytes, nextUUID, putBlockIds,
                   putBlockLists, putBlobs, cancelVars, putBlockFailed, putBlockListFailed,
                   startedAfterTrip, trippedWithUnstarted, epilogueRuns>>
    /\ UNCHANGED <<scheduled, putBlobResult, jptmVars, clientVars, copyVars, enumVars>>

\* line 168: was the transfer cancelled before the put block list?
uploadFunc_checkCancelledBeforeCommit(w) ==
    /\ pc[w] = "L168"
    /\ Goto(w, IF ctxErr THEN "L169" ELSE "L181")
    /\ UNCHANGED <<transferVars, prologuePc, startIndex, blockIdCount, chunkChannel, msg,
                   encodedBlockId, ctxErr, status, chunkStatus, chunksDone, transfersDone,
                   blockIds, unmapCalls, currentBytes, nextUUID, putBlockIds,
                   putBlockLists, putBlobs, cancelVars, putBlockFailed,
                   putBlockListFailed, startedAfterTrip, trippedWithUnstarted,
                   epilogueRuns>>
    /\ UNCHANGED <<scheduled, putBlobResult, jptmVars, clientVars, copyVars, enumVars>>

\* line 169
uploadFunc_cancelled_TransferDone(w) ==
    /\ pc[w] = "L169"
    /\ transfersDone' = transfersDone + 1
    /\ Return(w)
    /\ UNCHANGED <<transferVars, prologuePc, startIndex, blockIdCount, chunkChannel,
                   ctxErr, status, chunkStatus, chunksDone, blockIds, unmapCalls,
                   currentBytes, nextUUID, putBlockIds, putBlockLists, putBlobs,
                   cancelVars, putBlockFailed, putBlockListFailed, startedAfterTrip,
                   trippedWithUnstarted, epilogueRuns>>
    /\ UNCHANGED <<scheduled, putBlobResult, jptmVars, clientVars, copyVars, enumVars>>

\* line 181: PutBlockList with the whole vector; a tripped context fails the call
uploadFunc_PutBlockList(w) ==
    /\ pc[w] = "L181"
    /\ putBlockLists' = Append(putBlockLists, BlockList)
    /\ \E err \in BOOLEAN :
          /\ ctxErr => err
          /\ putBlockListFailed' = (putBlockListFailed \/ err)
          /\ Goto(w, IF err THEN "L186" ELSE "L196")
    /\ UNCHANGED <<transferVars, prologuePc, startIndex, blockIdCount, chunkChannel, msg,
                   encodedBlockId, ctxErr, status, chunkStatus, chunksDone, transfersDone,
                   blockIds, unmapCalls, currentBytes, nextUUID, putBlockIds, putBlobs,
                   cancelVars, putBlockFailed, startedAfterTrip, trippedWithUnstarted,
                   epilogueRuns>>
    /\ UNCHANGED <<scheduled, putBlobResult, jptmVars, clientVars, copyVars, enumVars>>

\* line 186
uploadFunc_commitFailed_TransferStatus(w) ==
    /\ pc[w] = "L186"
    /\ status' = TransferFailed
    /\ Goto(w, "L187")
    /\ UNCHANGED <<transferVars, prologuePc, startIndex, blockIdCount, chunkChannel, msg,
                   encodedBlockId, ctxErr, chunkStatus, chunksDone, transfersDone,
                   blockIds, unmapCalls, currentBytes, nextUUID, putBlockIds,
                   putBlockLists, putBlobs, cancelVars, putBlockFailed,
                   putBlockListFailed, startedAfterTrip, trippedWithUnstarted,
                   epilogueRuns>>
    /\ UNCHANGED <<scheduled, putBlobResult, jptmVars, clientVars, copyVars, enumVars>>

\* line 187
uploadFunc_commitFailed_TransferDone(w) ==
    /\ pc[w] = "L187"
    /\ transfersDone' = transfersDone + 1
    /\ Return(w)
    /\ UNCHANGED <<transferVars, prologuePc, startIndex, blockIdCount, chunkChannel,
                   ctxErr, status, chunkStatus, chunksDone, blockIds, unmapCalls,
                   currentBytes, nextUUID, putBlockIds, putBlockLists, putBlobs,
                   cancelVars, putBlockFailed, putBlockListFailed, startedAfterTrip,
                   trippedWithUnstarted, epilogueRuns>>
    /\ UNCHANGED <<scheduled, putBlobResult, jptmVars, clientVars, copyVars, enumVars>>

\* line 196
uploadFunc_TransferStatus(w) ==
    /\ pc[w] = "L196"
    /\ status' = TransferComplete
    /\ Goto(w, "L197")
    /\ UNCHANGED <<transferVars, prologuePc, startIndex, blockIdCount, chunkChannel, msg,
                   encodedBlockId, ctxErr, chunkStatus, chunksDone, transfersDone,
                   blockIds, unmapCalls, currentBytes, nextUUID, putBlockIds,
                   putBlockLists, putBlobs, cancelVars, putBlockFailed,
                   putBlockListFailed, startedAfterTrip, trippedWithUnstarted,
                   epilogueRuns>>
    /\ UNCHANGED <<scheduled, putBlobResult, jptmVars, clientVars, copyVars, enumVars>>

\* line 197
uploadFunc_TransferDone(w) ==
    /\ pc[w] = "L197"
    /\ transfersDone' = transfersDone + 1
    /\ Goto(w, "L199")
    /\ UNCHANGED <<transferVars, prologuePc, startIndex, blockIdCount, chunkChannel, msg,
                   encodedBlockId, ctxErr, status, chunkStatus, chunksDone, blockIds,
                   unmapCalls, currentBytes, nextUUID, putBlockIds, putBlockLists,
                   putBlobs, cancelVars, putBlockFailed, putBlockListFailed,
                   startedAfterTrip, trippedWithUnstarted, epilogueRuns>>
    /\ UNCHANGED <<scheduled, putBlobResult, jptmVars, clientVars, copyVars, enumVars>>

\* line 199
uploadFunc_Unmap(w) ==
    /\ pc[w] = "L199"
    /\ unmapCalls' = unmapCalls + 1
    /\ Return(w)
    /\ UNCHANGED <<transferVars, prologuePc, startIndex, blockIdCount, chunkChannel,
                   ctxErr, status, chunkStatus, chunksDone, transfersDone, blockIds,
                   currentBytes, nextUUID, putBlockIds, putBlockLists, putBlobs,
                   cancelVars, putBlockFailed, putBlockListFailed, startedAfterTrip,
                   trippedWithUnstarted, epilogueRuns>>
    /\ UNCHANGED <<scheduled, putBlobResult, jptmVars, clientVars, copyVars, enumVars>>


(* ---- generateUploadFunc: part_000 lines 82-135 ---- *)

\* lines 89-93: a fresh block id is generated and saved at the chunk's position
uploadFunc0_saveBlockId(w) ==
    /\ pc[w] = "R89"
    /\ nextUUID' = nextUUID + 1
    /\ encodedBlockId' = [encodedBlockId EXCEPT ![w] = EncodeToString(nextUUID)]
    /\ blockIds' = [blockIds EXCEPT ![msg[w].chunkId] = EncodeToString(nextUUID)]
    /\ Goto(w, "R98")
    /\ UNCHANGED <<transferVars, prologuePc, startIndex, blockIdCount, chunkChannel, msg,
                   ctxErr, status, chunkStatus, chunksDone, transfersDone, unmapCalls,
                   currentBytes, putBlockIds, putBlockLists, putBlobs, cancelVars,
                   putBlockFailed, putBlockListFailed, startedAfterTrip,
                   trippedWithUnstarted, epilogueRuns>>
    /\ UNCHANGED <<scheduled, putBlobResult, jptmVars, clientVars, copyVars, enumVars>>

\* line 98: PutBlock is issued; under a tripped context it fails at once
uploadFunc0_PutBlock(w) ==
    /\ pc[w] = "R98"
    /\ putBlockIds' = [putBlockIds EXCEPT ![msg[w].chunkId] = encodedBlockId[w]]
    /\ IF ctxErr
       THEN /\ Goto(w, "R101")
            /\ putBlockFailed' = putBlockFailed \cup {msg[w].chunkId}
       ELSE /\ Goto(w, "R98_wait")
            /\ UNCHANGED putBlockFailed
    /\ UNCHANGED <<transferVars, prologuePc, startIndex, blockIdCount, chunkChannel, msg,
                   encodedBlockId, ctxErr, status, chunkStatus, chunksDone, transfersDone,
                   blockIds, unmapCalls, currentBytes, nextUUID, putBlockLists, putBlobs,
                   cancelVars, putBlockListFailed, startedAfterTrip,
                   trippedWithUnstarted, epilogueRuns>>
    /\ UNCHANGED <<scheduled, putBlobResult, jptmVars, clientVars, copyVars, enumVars>>

\* line 98: PutBlock returns, with or without an error
uploadFunc0_PutBlock_returns(w) ==
    /\ pc[w] = "R98_wait"
    /\ \E err \in BOOLEAN :
          IF err
          THEN /\ Goto(w, "R101")
               /\ putBlockFailed' = putBlockFailed \cup {msg[w].chunkId}
          ELSE /\ Goto(w, "R109")
               /\ UNCHANGED putBlockFailed
    /\ UNCHANGED <<transferVars, prologuePc, startIndex, blockIdCount, chunkChannel, msg,
                   encodedBlockId, ctxErr, status, chunkStatus, chunksDone, transfersDone,
                   blockIds, unmapCalls, currentBytes, nextUUID, putBlockIds,
                   putBlockLists, putBlobs, cancelVars, putBlockListFailed,
                   startedAfterTrip, trippedWithUnstarted, epilogueRuns>>
    /\ UNCHANGED <<scheduled, putBlobResult, jptmVars, clientVars, copyVars, enumVars>>

\* line 101: the failed chunk cancels the transfer
uploadFunc0_failed_cancelTransfer(w) ==
    /\ pc[w] = "R101"
    /\ Trip
    /\ Goto(w, "R104")
    /\ UNCHANGED <<transferVars, prologuePc, startIndex, blockIdCount, chunkChannel, msg,
                   encodedBlockId, status, chunkStatus, chunksDone, transfersDone,
                   blockIds, unmapCalls, currentBytes, nextUUID, putBlockIds,
                   putBlockLists, putBlobs, cancelVars, putBlockFailed,
                   putBlockListFailed, startedAfterTrip, epilogueRuns>>
    /\ UNCHANGED <<scheduled, putBlobResult, jptmVars, clientVars, copyVars, enumVars>>

\* line 104
uploadFunc0_failed_updateChunkInfo(w) ==
    /\ pc[w] = "R104"
    /\ chunkStatus' = [chunkStatus EXCEPT ![msg[w].chunkId] = ChunkTransferStatusFailed]
    /\ Goto(w, "R105")
    /\ UNCHANGED <<transferVars, prologuePc, startIndex, blockIdCount, chunkChannel, msg,
                   encodedBlockId, ctxErr, status, chunksDone, transfersDone, blockIds,
                   unmapCalls, currentBytes, nextUUID, putBlockIds, putBlockLists,
                   putBlobs, cancelVars, putBlockFailed, putBlockListFailed,
                   startedAfterTrip, trippedWithUnstarted, epilogueRuns>>
    /\ UNCHANGED <<scheduled, putBlobResult, jptmVars, clientVars, copyVars, enumVars>>

\* lines 105-106: the transfer is marked failed and the closure returns
uploadFunc0_failed_updateTransferStatus(w) ==
    /\ pc[w] = "R105"
    /\ status' = TransferFailed
    /\ Return(w)
    /\ UNCHANGED <<transferVars, prologuePc, startIndex, blockIdCount, chunkChannel,
                   ctxErr, chunkStatus, chunksDone, transfersDone, blockIds, unmapCalls,
                   currentBytes, nextUUID, putBlockIds, putBlockLists, putBlobs,
                   cancelVars, putBlockFailed, putBlockListFailed, startedAfterTrip,
                   trippedWithUnstarted, epilogueRuns>>
    /\ UNCHANGED <<scheduled, putBlobResult, jptmVars, clientVars, copyVars, enumVars>>

\* line 109
uploadFunc0_updateChunkInfo(w) ==
    /\ pc[w] = "R109"
    /\ chunkStatus' = [chunkStatus EXCEPT ![msg[w].chunkId] = ChunkTransferStatusComplete]
    /\ Goto(w, "R110")
    /\ UNCHANGED <<transferVars, prologuePc, startIndex, blockIdCount, chunkChannel, msg,
                   encodedBlockId, ctxErr, status, chunksDone, transfersDone, blockIds,
                   unmapCalls, currentBytes, nextUUID, putBlockIds, putBlockLists,
                   putBlobs, cancelVars, putBlockFailed, putBlockListFailed,
                   startedAfterTrip, trippedWithUnstarted, epilogueRuns>>
    /\ UNCHANGED <<scheduled, putBlobResult, jptmVars, clientVars, copyVars, enumVars>>

\* line 110
uploadFunc0_updateThroughputCounter(w) ==
    /\ pc[w] = "R110"
    /\ currentBytes' = currentBytes + msg[w].chunkSize
    /\ Goto(w, "R113")
    /\ UNCHANGED <<transferVars, prologuePc, startIndex, blockIdCount, chunkChannel, msg,
                   encodedBlockId, ctxErr, status, chunkStatus, chunksDone, transfersDone,
                   blockIds, unmapCalls, nextUUID, putBlockIds, putBlockLists, putBlobs,
                   cancelVars, putBlockFailed, putBlockListFailed, startedAfterTrip,
                   trippedWithUnstarted, epilogueRuns>>
    /\ UNCHANGED <<scheduled, putBlobResult, jptmVars, clientVars, copyVars, enumVars>>

\* line 113: the progress counter is incremented and compared with the total
uploadFunc0_AddUint32(w) ==
    /\ pc[w] = "R113"
    /\ chunksDone' = AddUint32(chunksDone, 1)
    /\ LastChunk(w, chunksDone', "R118")
    /\ UNCHANGED <<transferVars, prologuePc, startIndex, blockIdCount, chunkChannel,
                   ctxErr, status, chunkStatus, transfersDone, blockIds, unmapCalls,
                   currentBytes, nextUUID, putBlockIds, putBlockLists, putBlobs,
                   cancelVars, putBlockFailed, putBlockListFailed, startedAfterTrip,
                   trippedWithUnstarted>>
    /\ UNCHANGED <<scheduled, putBlobResult, jptmVars, clientVars, copyVars, enumVars>>

\* line 118: PutBlockList with the whole vector; a tripped context fails the call
uploadFunc0_PutBlockList(w) ==
    /\ pc[w] = "R118"
    /\ putBlockLists' = Append(putBlockLists, BlockList)
    /\ \E err \in BOOLEAN :
          /\ ctxErr => err
          /\ putBlockListFailed' = (putBlockListFailed \/ err)
          /\ Goto(w, IF err THEN "R122" ELSE "R125")
    /\ UNCHANGED <<transferVars, prologuePc, startIndex, blockIdCount, chunkChannel, msg,
                   encodedBlockId, ctxErr, status, chunkStatus, chunksDone, transfersDone,
                   blockIds, unmapCalls, currentBytes, nextUUID, putBlockIds, putBlobs,
                   cancelVars, putBlockFailed, startedAfterTrip, trippedWithUnstarted,
                   epilogueRuns>>
    /\ UNCHANGED <<scheduled, putBlobResult, jptmVars, clientVars, copyVars, enumVars>>

\* line 122: the failure is recorded, and the closure goes on
uploadFunc0_commitFailed_updateTransferStatus(w) ==
    /\ pc[w] = "R122"
    /\ status' = TransferFailed
    /\ Goto(w, "R125")
    /\ UNCHANGED <<transferVars, prologuePc, startIndex, blockIdCount, chunkChannel, msg,
                   encodedBlockId, ctxErr, chunkStatus, chunksDone, transfersDone,
                   blockIds, unmapCalls, currentBytes, nextUUID, putBlockIds,
                   putBlockLists, putBlobs, cancelVars, putBlockFailed,
                   putBlockListFailed, startedAfterTrip, trippedWithUnstarted,
                   epilogueRuns>>
    /\ UNCHANGED <<scheduled, putBlobResult, jptmVars, clientVars, copyVars, enumVars>>

\* line 125
uploadFunc0_updateTransferStatus(w) ==
    /\ pc[w] = "R125"
    /\ status' = TransferComplete
    /\ Goto(w, "R127")
    /\ UNCHANGED <<transferVars, prologuePc, startIndex, blockIdCount, chunkChannel, msg,
                   encodedBlockId, ctxErr, chunkStatus, chunksDone, transfersDone,
                   blockIds, unmapCalls, currentBytes, nextUUID, putBlockIds,
                   putBlockLists, putBlobs, cancelVars, putBlockFailed,
                   putBlockListFailed, startedAfterTrip, trippedWithUnstarted,
                   epilogueRuns>>
    /\ UNCHANGED <<scheduled, putBlobResult, jptmVars, clientVars, copyVars, enumVars>>

\* line 127
uploadFunc0_Unmap(w) ==
    /\ pc[w] = "R127"
    /\ unmapCalls' = unmapCalls + 1
    /\ Return(w)
    /\ UNCHANGED <<transferVars, prologuePc, startIndex, blockIdCount, chunkChannel,
                   ctxErr, status, chunkStatus, chunksDone, transfersDone, blockIds,
                   currentBytes, nextUUID, putBlockIds, putBlockLists, putBlobs,
                   cancelVars, putBlockFailed, putBlockListFailed, startedAfterTrip,
                   trippedWithUnstarted, epilogueRuns>>
    /\ UNCHANGED <<scheduled, putBlobResult, jptmVars, clientVars, copyVars, enumVars>>


(* ---- the system ---- *)

Next ==
    \/ CancelJob
    \/ prologue_start
    \/ prologue_schedule
    \/ prologue_return
    \/ putBlob_PutBlob
    \/ putBlob_TransferStatus
    \/ putBlob_TransferDone
    \/ putBlob_Unmap
    \/ \E w \in Workers : worker_receive(w)
    \/ \E w \in Workers : uploadFunc_checkCancelled(w)
    \/ \E w \in Workers : uploadFunc_skipped_ChunksDone(w)
    \/ \E w \in Workers : uploadFunc_skipped_TransferDone(w)
    \/ \E w \in Workers : uploadFunc_saveBlockId(w)
    \/ \E w \in Workers : uploadFunc_PutBlock(w)
    \/ \E w \in Workers : uploadFunc_PutBlock_returns(w)
    \/ \E w \in Workers : uploadFunc_failed_TransferCancelFunc(w)
    \/ \E w \in Workers : uploadFunc_failed_TransferStatus(w)
    \/ \E w \in Workers : uploadFunc_failed_ChunksDone(w)
    \/ \E w \in Workers : uploadFunc_failed_TransferDone(w)
    \/ \E w \in Workers : uploadFunc_failed_Unmap(w)
    \/ \E w \in Workers : uploadFunc_updateCurrentBytes(w)
    \/ \E w \in Workers : uploadFunc_ChunksDone(w)
    \/ \E w \in Workers : uploadFunc_checkCancelledBeforeCommit(w)
    \/ \E w \in Workers : uploadFunc_cancelled_TransferDone(w)
    \/ \E w \in Workers : uploadFunc_PutBlockList(w)
    \/ \E w \in Workers : uploadFunc_commitFailed_TransferStatus(w)
    \/ \E w \in Workers : uploadFunc_commitFailed_TransferDone(w)
    \/ \E w \in Workers : uploadFunc_TransferStatus(w)
    \/ \E w \in Workers : uploadFunc_TransferDone(w)
    \/ \E w \in Workers : uploadFunc_Unmap(w)
    \/ \E w \in Workers : uploadFunc0_saveBlockId(w)
    \/ \E w \in Workers : uploadFunc0_PutBlock(w)
    \/ \E w \in Workers : uploadFunc0_PutBlock_returns(w)
    \/ \E w \in Workers : uploadFunc0_failed_cancelTransfer(w)
    \/ \E w \in Workers : uploadFunc0_failed_updateChunkInfo(w)
    \/ \E w \in Workers : uploadFunc0_failed_updateTransferStatus(w)
    \/ \E w \in Workers : uploadFunc0_updateChunkInfo(w)
    \/ \E w \in Workers : uploadFunc0_updateThroughputCounter(w)
    \/ \E w \in Workers : uploadFunc0_AddUint32(w)
    \/ \E w \in Workers : uploadFunc0_PutBlockList(w)
    \/ \E w \in Workers : uploadFunc0_commitFailed_updateTransferStatus(w)
    \/ \E w \in Workers : uploadFunc0_updateTransferStatus(w)
    \/ \E w \in Workers : uploadFunc0_Unmap(w)

Spec == Init /\ [][Next]_vars

(* ---- anyToRemote: part_004 lines 32-175 ---- *)
\* part_004 names the sizes srcSize, chunkSize and numChunks and counts the chunks
\* in chunkIDCount; they are held in blobSize, chunkSize, numOfBlocks and blockIdCount.

PrologueRevisions == Revisions \cup {"part_004"}

\* what anyToRemote leaves alone
senderFrame == <<transferVars, pc, localVars, ctxErr, planVars, chunksDone, blockIds,
                 unmapCalls, currentBytes, nextUUID, remoteVars, histVars,
                 putBlobResult, forceWrite, clientVars, copyVars, enumVars>>

\* s.NumChunks() of a well-behaved sender: an empty file is sent as one dummy chunk
NumChunks(S, B) == IF S = 0 THEN 1 ELSE computeNumOfChunks(S, B)

\* lines 194-196
isDummyChunkInEmptyFile(i, fileSize) == i = 0 /\ fileSize = 0

\* jptm.SetStatus(st) followed by jptm.ReportTransferDone() and return
EndTransfer(st) ==
    /\ jptmStatus' = st
    /\ transfersDone' = transfersDone + 1
    /\ prologuePc' = "exit"

\* faulty variant: a transfer cancelled before it starts is dropped without a report
anyToRemote_WasCanceled_noReport ==
    /\ prologuePc = "A38"
    /\ prologuePc' = IF ctxErr THEN "exit" ELSE "A44"
    /\ UNCHANGED <<senderFrame, startIndex, blockIdCount, chunkChannel, scheduled,
                   transfersDone, jptmStatus, numberOfChunks, actionAfterLastChunk,
                   prologueCalls, existence>>

\* lines 38-41: a transfer cancelled before it starts is reported done as it is
anyToRemote_WasCanceled ==
    /\ prologuePc = "A38"
    /\ IF ctxErr
       THEN /\ transfersDone' = transfersDone + 1
            /\ prologuePc' = "exit"
       ELSE /\ prologuePc' = "A44"
            /\ UNCHANGED transfersDone
    /\ UNCHANGED <<senderFrame, startIndex, blockIdCount, chunkChannel, scheduled,
                   jptmStatus, numberOfChunks, actionAfterLastChunk, prologueCalls,
                   existence>>

\* lines 44-50: the source info provider
anyToRemote_sipf ==
    /\ prologuePc = "A44"
    /\ \E err \in BOOLEAN :
          IF err THEN EndTransfer("Failed")
          ELSE /\ prologuePc' = "A51"
               /\ UNCHANGED <<jptmStatus, transfersDone>>
    /\ UNCHANGED <<senderFrame, startIndex, blockIdCount, chunkChannel, scheduled,
                   numberOfChunks, actionAfterLastChunk, prologueCalls, existence>>

\* lines 51-57: the sender
anyToRemote_senderFactory ==
    /\ prologuePc = "A51"
    /\ \E err \in BOOLEAN :
          IF err THEN EndTransfer("Failed")
          ELSE /\ prologuePc' = "A59"
               /\ UNCHANGED <<jptmStatus, transfersDone>>
    /\ UNCHANGED <<senderFrame, startIndex, blockIdCount, chunkChannel, scheduled,
                   numberOfChunks, actionAfterLastChunk, prologueCalls, existence>>

\* lines 59-66: the sender's chunk count; zero is a panic
anyToRemote_NumChunks ==
    /\ prologuePc = "A59"
    /\ prologuePc' = IF numOfBlocks = 0 THEN "panic65" ELSE "A72"
    /\ UNCHANGED <<senderFrame, startIndex, blockIdCount, chunkChannel, scheduled,
                   transfersDone, jptmStatus, numberOfChunks, actionAfterLastChunk,
                   prologueCalls, existence>>

\* faulty variant: lines 72-86 with an existing destination treated as a plain failure
anyToRemote_checkOverwrite_existsFails ==
    /\ prologuePc = "A72"
    /\ IF forceWrite
       THEN /\ prologuePc' = "A91"
            /\ UNCHANGED <<existence, jptmStatus, transfersDone>>
       ELSE \E result \in {"error", "exists", "absent"} :
               /\ existence' = Append(existence, result)
               /\ IF result = "absent"
                  THEN /\ prologuePc' = "A91"
                       /\ UNCHANGED <<jptmStatus, transfersDone>>
                  ELSE EndTransfer("Failed")
    /\ UNCHANGED <<senderFrame, startIndex, blockIdCount, chunkChannel, scheduled,
                   numberOfChunks, actionAfterLastChunk, prologueCalls>>

\* lines 72-86: without force-write the destination must not exist
anyToRemote_checkOverwrite ==
    /\ prologuePc = "A72"
    /\ IF forceWrite
       THEN /\ prologuePc' = "A91"
            /\ UNCHANGED <<existence, jptmStatus, transfersDone>>
       ELSE \E result \in {"error", "exists", "absent"} :
               /\ existence' = Append(existence, result)
               /\ CASE result = "error" -> EndTransfer("Failed")
                    [] result = "exists" -> EndTransfer("FileAlreadyExistsFailure")
                    [] result = "absent" -> /\ prologuePc' = "A91"
                                            /\ UNCHANGED <<jptmStatus, transfersDone>>
    /\ UNCHANGED <<senderFrame, startIndex, blockIdCount, chunkChannel, scheduled,
                   numberOfChunks, actionAfterLastChunk, prologueCalls>>

\* lines 91-103: a local source is opened
anyToRemote_openSource ==
    /\ prologuePc = "A91"
    /\ \E isLocal \in BOOLEAN, err \in BOOLEAN :
          IF isLocal /\ err THEN EndTransfer("Failed")
          ELSE /\ prologuePc' = "A118"
               /\ UNCHANGED <<jptmStatus, transfersDone>>
    /\ UNCHANGED <<senderFrame, startIndex, blockIdCount, chunkChannel, scheduled,
                   numberOfChunks, actionAfterLastChunk, prologueCalls, existence>>

\* lines 118-119: from here on every chunk is scheduled whatever happens
anyToRemote_SetNumberOfChunks ==
    /\ prologuePc = "A118"
    /\ numberOfChunks' = numOfBlocks
    /\ actionAfterLastChunk' = TRUE
    /\ prologuePc' = "A131"
    /\ UNCHANGED <<senderFrame, startIndex, blockIdCount, chunkChannel, scheduled,
                   transfersDone, jptmStatus, prologueCalls, existence>>

\* faulty variant: lines 131-169 with every chunk given index 0
anyToRemote_schedule_sameIndex ==
    /\ prologuePc = "A131"
    /\ startIndex < blobSize \/ isDummyChunkInEmptyFile(startIndex, blobSize)
    /\ blockIdCount <= blobSize
    /\ Len(chunkChannel) < ChanCap
    /\ LET adjustedChunkSize == IF startIndex + chunkSize > blobSize
                                THEN blobSize - startIndex ELSE chunkSize
           chunkMsg == [chunkId |-> 0,
                        startIndex |-> startIndex,
                        chunkSize |-> adjustedChunkSize]
       IN /\ chunkChannel' = Append(chunkChannel, chunkMsg)
          /\ scheduled' = Append(scheduled, chunkMsg)
    /\ prologueCalls' = IF startIndex = 0
                        THEN Append(prologueCalls, Len(scheduled)) ELSE prologueCalls
    /\ startIndex' = startIndex + chunkSize
    /\ blockIdCount' = blockIdCount + 1
    /\ UNCHANGED <<senderFrame, prologuePc, transfersDone, jptmStatus, numberOfChunks,
                   actionAfterLastChunk, existence>>

\* faulty variant: lines 131-169 with the sender's Prologue run after the first chunk
\* is scheduled
anyToRemote_schedule_prologueLate ==
    /\ prologuePc = "A131"
    /\ startIndex < blobSize \/ isDummyChunkInEmptyFile(startIndex, blobSize)
    /\ blockIdCount <= blobSize
    /\ Len(chunkChannel) < ChanCap
    /\ LET adjustedChunkSize == IF startIndex + chunkSize > blobSize
                                THEN blobSize - startIndex ELSE chunkSize
           chunkMsg == [chunkId |-> blockIdCount,
                        startIndex |-> startIndex,
                        chunkSize |-> adjustedChunkSize]
       IN /\ chunkChannel' = Append(chunkChannel, chunkMsg)
          /\ scheduled' = Append(scheduled, chunkMsg)
    /\ prologueCalls' = IF startIndex = 0
                        THEN Append(prologueCalls, Len(scheduled')) ELSE prologueCalls
    /\ startIndex' = startIndex + chunkSize
    /\ blockIdCount' = blockIdCount + 1
    /\ UNCHANGED <<senderFrame, prologuePc, transfersDone, jptmStatus, numberOfChunks,
                   actionAfterLastChunk, existence>>

\* lines 131-169: one iteration of the scheduling loop; the sender's Prologue runs in
\* the first one; ScheduleChunks blocks on a full channel
anyToRemote_schedule ==
    /\ prologuePc = "A131"
    /\ startIndex < blobSize \/ isDummyChunkInEmptyFile(startIndex, blobSize)
    /\ blockIdCount <= blobSize
    /\ Len(chunkChannel) < ChanCap
    /\ LET adjustedChunkSize == IF startIndex + chunkSize > blobSize
                                THEN blobSize - startIndex ELSE chunkSize
           chunkMsg == [chunkId |-> blockIdCount,
                        startIndex |-> startIndex,
                        chunkSize |-> adjustedChunkSize]
       IN /\ chunkChannel' = Append(chunkChannel, chunkMsg)
          /\ scheduled' = Append(scheduled, chunkMsg)
    /\ prologueCalls' = IF startIndex = 0
                        THEN Append(prologueCalls, Len(scheduled)) ELSE prologueCalls
    /\ startIndex' = startIndex + chunkSize
    /\ blockIdCount' = blockIdCount + 1
    /\ UNCHANGED <<senderFrame, prologuePc, transfersDone, jptmStatus, numberOfChunks,
                   actionAfterLastChunk, existence>>

\* faulty variant: the loop is over and the routine returns whatever it scheduled
anyToRemote_sanityCheck_noPanic ==
    /\ prologuePc = "A131"
    /\ ~(startIndex < blobSize \/ isDummyChunkInEmptyFile(startIndex, blobSize))
    /\ prologuePc' = "done"
    /\ UNCHANGED <<senderFrame, startIndex, blockIdCount, chunkChannel, scheduled,
                   transfersDone, jptmStatus, numberOfChunks, actionAfterLastChunk,
                   prologueCalls, existence>>

\* lines 172-175: the loop is over; a wrong number of chunks is a panic
anyToRemote_sanityCheck ==
    /\ prologuePc = "A131"
    /\ ~(startIndex < blobSize \/ isDummyChunkInEmptyFile(startIndex, blobSize))
    /\ prologuePc' = IF blockIdCount # numOfBlocks THEN "panic173" ELSE "done"
    /\ UNCHANGED <<senderFrame, startIndex, blockIdCount, chunkChannel, scheduled,
                   transfersDone, jptmStatus, numberOfChunks, actionAfterLastChunk,
                   prologueCalls, existence>>

(* ---- the prologues on their own ---- *)

\* the sign of jptm.TransferStatus(): zero is not started, above zero is in progress
\* or successful, below zero is a failure or a cancellation
TransferStatusSign(st) ==
    CASE st = "NotSet" -> 0
      [] st \in {"Started", "Success"} -> 1
      [] OTHER -> -1

\* a worker takes the next chunk message off the channel and runs it (the chunk
\* functions of part_000 and part_003 are left out of SpecPrologue). A chunk function
\* of part_004 ends by reporting its chunk done, after failing the transfer if it
\* met an error or a cancellation; the worker that reports the announced number of
\* chunks goes on to the action registered for the last chunk.
worker_dequeue ==
    /\ chunkChannel # <<>>
    /\ chunkChannel' = Tail(chunkChannel)
    /\ IF revision = "part_004"
       THEN /\ chunksDone' = chunksDone + 1
            /\ \E outcome \in {"ok", "Failed"} \cup (IF ctxErr THEN {"Cancelled"} ELSE {}) :
                  jptmStatus' = IF outcome = "ok" \/ TransferStatusSign(jptmStatus) < 0
                                THEN jptmStatus ELSE outcome
            /\ IF actionAfterLastChunk /\ chunksDone' = numberOfChunks
               THEN \E w \in Workers : pc' = [pc EXCEPT ![w] = "E202"]
               ELSE UNCHANGED pc
       ELSE UNCHANGED <<chunksDone, jptmStatus, pc>>
    /\ UNCHANGED <<transferVars, localVars, ctxErr, planVars, blockIds, unmapCalls,
                   currentBytes, nextUUID, remoteVars, histVars, putBlobResult, forceWrite,
                   clientVars, copyVars, enumVars, prologueVars, scheduled, transfersDone,
                   numberOfChunks, actionAfterLastChunk, prologueCalls, existence>>

(* ---- epilogueWithCleanupSendToRemote: part_004 lines 199-235 ---- *)

\* what the epilogue leaves alone
epilogueFrame == <<transferVars, localVars, ctxErr, planVars, chunksDone, blockIds,
                   unmapCalls, currentBytes, nextUUID, remoteVars, cancelVars,
                   putBlockFailed, putBlockListFailed, startedAfterTrip,
                   trippedWithUnstarted, putBlobResult, forceWrite, clientVars, copyVars, enumVars,
                   prologueVars, chunkChannel, scheduled, numberOfChunks,
                   actionAfterLastChunk, prologueCalls, existence>>

\* line 202: the sender's Epilogue, which may fail the transfer (a commit that fails)
epilogueWithCleanupSendToRemote_Epilogue(w) ==
    /\ pc[w] = "E202"
    /\ \E failed \in BOOLEAN :
          jptmStatus' = IF failed /\ TransferStatusSign(jptmStatus) >= 0
                        THEN "Failed" ELSE jptmStatus
    /\ Goto(w, "E204")
    /\ UNCHANGED <<epilogueFrame, transfersDone, epilogueRuns>>

\* faulty variant: lines 204-231 with every started transfer set to Success
epilogueWithCleanupSendToRemote_SetStatus_always(w) ==
    /\ pc[w] = "E204"
    /\ IF TransferStatusSign(jptmStatus) = 0
       THEN /\ Goto(w, "panic205")
            /\ UNCHANGED jptmStatus
       ELSE /\ jptmStatus' = "Success"
            /\ Goto(w, "E234")
    /\ UNCHANGED <<epilogueFrame, transfersDone, epilogueRuns>>

\* lines 204-231: a status of zero panics, a status above zero becomes Success, a
\* status below zero stays
epilogueWithCleanupSendToRemote_SetStatus(w) ==
    /\ pc[w] = "E204"
    /\ IF TransferStatusSign(jptmStatus) = 0
       THEN /\ Goto(w, "panic205")
            /\ UNCHANGED jptmStatus
       ELSE /\ jptmStatus' = IF TransferStatusSign(jptmStatus) > 0
                             THEN "Success" ELSE jptmStatus
            /\ Goto(w, "E234")
    /\ UNCHANGED <<epilogueFrame, transfersDone, epilogueRuns>>

\* line 234: successful or not, the transfer is reported done
epilogueWithCleanupSendToRemote_ReportTransferDone(w) ==
    /\ pc[w] = "E234"
    /\ transfersDone' = transfersDone + 1
    /\ epilogueRuns' = epilogueRuns + 1
    /\ Goto(w, "idle")
    /\ UNCHANGED <<epilogueFrame, jptmStatus>>

InitPrologue ==
    /\ revision \in PrologueRevisions
    /\ blobSize \in 0 .. MaxPrologueSourceSize
    /\ chunkSize \in 1 .. MaxPrologueBlockSize
    /\ numOfBlocks \in IF revision = "part_004"
                       THEN 0 .. NumChunks(blobSize, chunkSize) + 1
                       ELSE {computeNumOfChunks(blobSize, chunkSize)}
    /\ sourceMutated \in BOOLEAN
    /\ forceWrite \in IF revision = "part_004" THEN BOOLEAN ELSE {TRUE}
    /\ prologuePc = IF revision = "part_004" THEN "A38" ELSE "start"
    /\ TransferStart
    /\ JptmStart
    /\ ClientStart
    /\ CopyStart
    /\ EnumStart

NextPrologue ==
    \/ CancelJob
    \/ prologue_start
    \/ prologue_schedule
    \/ prologue_return
    \/ putBlob_PutBlob
    \/ putBlob_TransferStatus
    \/ putBlob_TransferDone
    \/ putBlob_Unmap
    \/ anyToRemote_WasCanceled
    \/ anyToRemote_sipf
    \/ anyToRemote_senderFactory
    \/ anyToRemote_NumChunks
    \/ anyToRemote_checkOverwrite
    \/ anyToRemote_openSource
    \/ anyToRemote_SetNumberOfChunks
    \/ anyToRemote_schedule
    \/ anyToRemote_sanityCheck
    \/ worker_dequeue
    \/ \E w \in Workers : epilogueWithCleanupSendToRemote_Epilogue(w)
    \/ \E w \in Workers : epilogueWithCleanupSendToRemote_SetStatus(w)
    \/ \E w \in Workers : epilogueWithCleanupSendToRemote_ReportTransferDone(w)

SpecPrologue == InitPrologue /\ [][NextPrologue]_vars

\* the prologues that read the block size from the plan or the sender, over every
\* block size an order may carry: zero is what ApplyFlags copies into the order when
\* the command line names none
InitBlockSize ==
    /\ revision \in {"part_003", "part_004"}
    /\ blobSize \in 0 .. MaxPrologueSourceSize
    /\ chunkSize \in 0 .. MaxPrologueBlockSize
    /\ numOfBlocks \in IF chunkSize = 0
                       THEN (IF revision = "part_004" THEN {0, 1} ELSE {1})
                       ELSE IF revision = "part_004"
                       THEN {0, NumChunks(blobSize, chunkSize)}
                       ELSE {computeNumOfChunks(blobSize, chunkSize)}
    /\ sourceMutated = FALSE
    /\ forceWrite \in IF revision = "part_004" THEN BOOLEAN ELSE {TRUE}
    /\ prologuePc = IF revision = "part_004" THEN "A38" ELSE "start"
    /\ TransferStart
    /\ JptmStart
    /\ ClientStart
    /\ CopyStart
    /\ EnumStart

SpecBlockSize == InitBlockSize /\ [][NextPrologue]_vars

(* ---- the client: handlers/cancelpauseresumeHandler.go, handlers/listHandler.go ---- *)

\* job id strings a command line may carry: a well-formed UUID, nothing, a malformed one
UUIDStrings == {"job-1"}
JobIdStrings == UUIDStrings \cup {"", "not-a-uuid"}

\* values of --with-status: absent, the names the parser knows, and the name the
\* engine's status enumeration uses
TransferStatusNames == {"", "TransferStatusActive", "TransferStatusComplete",
                        "TransferStatusFailed", "TranferStatusAll", "TransferFailed"}

\* the response codes of the engine: accepted, or a rejection
ResponseCodes == {StatusAccepted, 400}

\* common.ParseUUID returns no error
ParseUUID(jobIdString) == jobIdString \in UUIDStrings

\* part_008 lines 487-500; the default branch panics
TransferStatusStringToStatusCode(s) ==
    CASE s = "TransferStatusActive" -> 0
      [] s = "TransferStatusComplete" -> 1
      [] s = "TransferStatusFailed" -> 2
      [] s = "TranferStatusAll" -> 254
      [] OTHER -> Panic

\* part_008 lines 503-516; the default branch panics
TransferStatusCodeToString(c) ==
    CASE c = 0 -> "TransferStatusActive"
      [] c = 1 -> "TransferStatusComplete"
      [] c = 2 -> "TransferStatusFailed"
      [] c = 255 -> "TranferStatusAll"
      [] OTHER -> "panic"

\* part_008 lines 60-73: TransferStatus.String
String(st) ==
    CASE st = TransferInProgress -> "InProgress"
      [] st = TransferComplete -> "TransferComplete"
      [] st = TransferFailed -> "TransferFailed"
      [] st = TransferAny -> "TransferAny"
      [] OTHER -> "InvalidStatusCode"

\* part_008 lines 90-103; the default branch panics
TransferStatusStringToCode(statusString) ==
    CASE statusString = "TransferInProgress" -> TransferInProgress
      [] statusString = "TransferComplete" -> TransferComplete
      [] statusString = "TransferFailed" -> TransferFailed
      [] statusString = "TransferAny" -> TransferAny
      [] OTHER -> Panic

\* part_008 lines 303-322: HTTPClient.Send posts the payload under ?commandType=
Send(cmd, commandType, v) ==
    [from |-> cmd, method |-> "POST", query |-> [commandType |-> commandType], body |-> v]

\* listHandler.go lines 52-61 (and 173-186): the list order travels in a GET under ?Type=list
ListRequest(cmd, order) ==
    [from |-> cmd, method |-> "GET", query |-> [Type |-> "list", command |-> order],
     body |-> ""]

\* a command may be started
ClientIdle == clientPc = "idle" /\ commandsRun < MaxCommands

\* the command ends with the given result (StatusCode 0: no response was received)
Finish(cmd, StatusCode, result) ==
    /\ outcomes' = Append(outcomes, [command |-> cmd, StatusCode |-> StatusCode,
                                     result |-> result])
    /\ clientPc' = "idle"
    /\ command' = NoCommand

\* the common shape of the cancel, pause and resume handlers up to the request:
\* parse the job id, then send it under the given command type
JobCommand(handler, commandType, jobIdString) ==
    /\ commandsRun' = commandsRun + 1
    /\ LET cmd == [verb |-> handler, jobId |-> jobIdString, transferStatus |-> ""]
       IN IF ~ParseUUID(jobIdString)
          THEN /\ Finish(cmd, 0, "invalid jobId")
               /\ UNCHANGED requests
          ELSE /\ requests' = Append(requests, Send(cmd, commandType, jobIdString))
               /\ command' = cmd
               /\ clientPc' = "sent"
               /\ UNCHANGED outcomes
    /\ UNCHANGED <<engineVars, copyVars, listOrder>>

\* the common shape of their second half: anything but 202 Accepted is a failure
JobCommandResponse(done) ==
    /\ \E StatusCode \in ResponseCodes :
          Finish(command, StatusCode,
                 IF StatusCode # StatusAccepted THEN "request failed" ELSE done)
    /\ UNCHANGED <<engineVars, copyVars, listOrder, requests, commandsRun>>

\* faulty variant: lines 12-25 with the request sent before the job id is parsed
HandleCancelCommand_sendFirst(jobIdString) ==
    /\ ClientIdle
    /\ commandsRun' = commandsRun + 1
    /\ LET cmd == [verb |-> "cancel", jobId |-> jobIdString, transferStatus |-> ""]
       IN /\ requests' = Append(requests, Send(cmd, "cancel", jobIdString))
          /\ IF ~ParseUUID(jobIdString)
             THEN Finish(cmd, 0, "invalid jobId")
             ELSE /\ command' = cmd
                  /\ clientPc' = "sent"
                  /\ UNCHANGED outcomes
    /\ UNCHANGED <<engineVars, copyVars, listOrder>>

\* cancelpauseresumeHandler.go lines 12-25
HandleCancelCommand(jobIdString) ==
    /\ ClientIdle
    /\ JobCommand("cancel", "cancel", jobIdString)

\* lines 26-37
HandleCancelCommand_response ==
    /\ clientPc = "sent"
    /\ command.verb = "cancel"
    /\ JobCommandResponse("cancelled successfully")

\* lines 42-54: the pause handler sends the command type "resume"
HandlePauseCommand(jobIdString) ==
    /\ ClientIdle
    /\ JobCommand("pause", "resume", jobIdString)

\* lines 55-69
HandlePauseCommand_response ==
    /\ clientPc = "sent"
    /\ command.verb = "pause"
    /\ JobCommandResponse("paused successfully")

\* lines 74-86
HandleResumeCommand(jobIdString) ==
    /\ ClientIdle
    /\ JobCommand("resume", "resume", jobIdString)

\* lines 88-99
HandleResumeCommand_response ==
    /\ clientPc = "sent"
    /\ command.verb = "resume"
    /\ JobCommandResponse("resume successfully")

\* listHandler.go lines 156-160: a job part order is posted under "copy"
sendJobPartOrderToSTE ==
    /\ ClientIdle
    /\ commandsRun' = commandsRun + 1
    /\ LET cmd == [verb |-> "copy", jobId |-> "", transferStatus |-> ""]
       IN /\ requests' = Append(requests, Send(cmd, "copy", "CopyJobPartOrder"))
          /\ command' = cmd
    /\ clientPc' = "sent"
    /\ UNCHANGED <<engineVars, copyVars, listOrder, outcomes>>

\* lines 162-167: the response is read and dropped
sendJobPartOrderToSTE_response ==
    /\ clientPc = "sent"
    /\ command.verb = "copy"
    /\ \E StatusCode \in ResponseCodes : Finish(command, StatusCode, "sent")
    /\ UNCHANGED <<engineVars, copyVars, listOrder, requests, commandsRun>>

\* listHandler.go lines 35-62: build the list order and send it; an unknown status
\* name panics in the parser before anything is sent
HandleListCommand(JobId, TransferStatus) ==
    /\ ClientIdle
    /\ commandsRun' = commandsRun + 1
    /\ LET cmd == [verb |-> "list", jobId |-> JobId, transferStatus |-> TransferStatus]
           ExpectedTransferStatus ==
               IF TransferStatus # ""
               THEN TransferStatusStringToStatusCode(TransferStatus)
               ELSE MaxUint8
           order == [JobId |-> JobId, ExpectedTransferStatus |-> ExpectedTransferStatus]
       IN IF ExpectedTransferStatus = Panic
          THEN /\ Finish(cmd, 0, "panic")
               /\ UNCHANGED <<requests, listOrder>>
          ELSE /\ listOrder' = order
               /\ requests' = Append(requests, ListRequest(cmd, order))
               /\ command' = cmd
               /\ clientPc' = "sent"
               /\ UNCHANGED outcomes
    /\ UNCHANGED <<engineVars, copyVars>>

\* faulty variant: lines 67-84 with the status filter tested before the job id
HandleListCommand_response_filterFirst ==
    /\ clientPc = "sent"
    /\ command.verb = "list"
    /\ \E StatusCode \in ResponseCodes :
          Finish(command, StatusCode,
                 IF StatusCode # StatusAccepted THEN "panic"
                 ELSE IF command.transferStatus = "" THEN "PrintJobProgressSummary"
                 ELSE IF listOrder.JobId = "" THEN "PrintExistingJobIds"
                 ELSE "PrintJobTransfers")
    /\ UNCHANGED <<engineVars, copyVars, listOrder, requests, commandsRun>>

\* lines 67-84: a response other than 202 panics; otherwise the body is printed as
\* the job list, the progress summary or the transfers of the job
HandleListCommand_response ==
    /\ clientPc = "sent"
    /\ command.verb = "list"
    /\ \E StatusCode \in ResponseCodes :
          Finish(command, StatusCode,
                 IF StatusCode # StatusAccepted THEN "panic"
                 ELSE IF listOrder.JobId = "" THEN "PrintExistingJobIds"
                 ELSE IF command.transferStatus = "" THEN "PrintJobProgressSummary"
                 ELSE "PrintJobTransfers")
    /\ UNCHANGED <<engineVars, copyVars, listOrder, requests, commandsRun>>

\* listHandler.go lines 170-188: the progress poll of a copy job
fetchJobStatus(jobId) ==
    /\ ClientIdle
    /\ commandsRun' = commandsRun + 1
    /\ LET cmd == [verb |-> "status", jobId |-> jobId, transferStatus |-> ""]
           lsCommand == [JobId |-> jobId, ExpectedTransferStatus |-> MaxUint8]
       IN /\ listOrder' = lsCommand
          /\ requests' = Append(requests, ListRequest(cmd, lsCommand))
          /\ command' = cmd
    /\ clientPc' = "sent"
    /\ UNCHANGED <<engineVars, copyVars, outcomes>>

\* lines 192-226
fetchJobStatus_response ==
    /\ clientPc = "sent"
    /\ command.verb = "status"
    /\ \E StatusCode \in ResponseCodes :
          Finish(command, StatusCode,
                 IF StatusCode # StatusAccepted THEN "panic" ELSE "JobStatus")
    /\ UNCHANGED <<engineVars, copyVars, listOrder, requests, commandsRun>>

\* the engine is not running a transfer while the client is looked at
InitClient ==
    /\ revision = "part_003"
    /\ blobSize = 1
    /\ chunkSize = 1
    /\ numOfBlocks = 1
    /\ sourceMutated = FALSE
    /\ forceWrite = TRUE
    /\ prologuePc = "start"
    /\ TransferStart
    /\ JptmStart
    /\ ClientStart
    /\ CopyStart
    /\ EnumStart

NextClient ==
    \/ \E j \in JobIdStrings : HandleCancelCommand(j)
    \/ HandleCancelCommand_response
    \/ \E j \in JobIdStrings : HandlePauseCommand(j)
    \/ HandlePauseCommand_response
    \/ \E j \in JobIdStrings : HandleResumeCommand(j)
    \/ HandleResumeCommand_response
    \/ sendJobPartOrderToSTE
    \/ sendJobPartOrderToSTE_response
    \/ \E j \in JobIdStrings, s \in TransferStatusNames : HandleListCommand(j, s)
    \/ HandleListCommand_response
    \/ \E j \in UUIDStrings : fetchJobStatus(j)
    \/ fetchJobStatus_response

SpecClient == InitClient /\ [][NextClient]_vars

(* ---- the copy command: part_006 ---- *)

\* part_008 lines 187-192: the values of LocationType
LocationTypes == {"Local", "Blob", "Unknown"}

\* what a copy command line may name: a local file, a local directory with up to
\* MaxFiles entries (regular files and sub-directories), a blob, or a container
\* whose listing comes in up to MaxSegments segments of up to MaxBlobsPerSegment
\* blobs; or a source and a destination of any other pair of location types
CopyInputs ==
    LET SeqUpTo(S, n) == UNION {[1 .. k -> S] : k \in 0 .. n}
    IN
    {[SourceType |-> "Local", DestinationType |-> "Blob", IsDir |-> d,
      files |-> f, segments |-> <<>>, sourcePathParts |-> 0, IsaBackgroundOp |-> b] :
        d \in {TRUE}, f \in SeqUpTo({"file", "dir"}, MaxFiles), b \in BOOLEAN}
    \cup
    {[SourceType |-> "Local", DestinationType |-> "Blob", IsDir |-> FALSE,
      files |-> <<>>, segments |-> <<>>, sourcePathParts |-> 0, IsaBackgroundOp |-> b] :
        b \in BOOLEAN}
    \cup
    {[SourceType |-> "Blob", DestinationType |-> "Local", IsDir |-> FALSE,
      files |-> <<>>, segments |-> <<>>, sourcePathParts |-> 2, IsaBackgroundOp |-> b] :
        b \in BOOLEAN}
    \cup
    {[SourceType |-> "Blob", DestinationType |-> "Local", IsDir |-> FALSE,
      files |-> <<>>, segments |-> g, sourcePathParts |-> 1, IsaBackgroundOp |-> b] :
        g \in SeqUpTo(0 .. MaxBlobsPerSegment, MaxSegments) \ {<<>>}, b \in BOOLEAN}
    \cup
    {[SourceType |-> t[1], DestinationType |-> t[2], IsDir |-> FALSE,
      files |-> <<>>, segments |-> <<>>, sourcePathParts |-> 0, IsaBackgroundOp |-> b] :
        t \in (LocationTypes \X LocationTypes) \ {<<"Local", "Blob">>, <<"Blob", "Local">>},
        b \in BOOLEAN}

\* listBlob.Blobs.Blob of segment k: the blobs are named by their place in the listing
Blob(segments, k) ==
    LET RECURSIVE BlobsBefore(_)
        BlobsBefore(j) == IF j = 0 THEN 0 ELSE BlobsBefore(j - 1) + segments[j]
    IN [n \in 1 .. segments[k] |-> BlobsBefore(k - 1) + n]

\* what the copy handler leaves alone
copyFrame == <<engineVars, clientPc, command, listOrder, outcomes, commandsRun>>

\* dispatchJobPartOrderFunc up to the request (listHandler.go lines 152-160): the
\* order is marshalled as it is at the call and posted under "copy"
dispatchJobPartOrderFunc(order) ==
    LET cmd == [verb |-> "copy", jobId |-> order.ID, transferStatus |-> ""]
    IN requests' = Append(requests, Send(cmd, "copy", order))

\* part_006 lines 45-62: flags, job id, choice of the direction
HandleCopyCommand(input) ==
    /\ copyPc = "idle"
    /\ commandLineInput' = input
    /\ \E uuid \in UUIDStrings \cup {""} :
          IF uuid = ""
          THEN /\ copyPc' = "panic"
               /\ UNCHANGED jobPartOrder
          ELSE /\ jobPartOrder' = [NoJobPartOrder EXCEPT !.ID = uuid]
               /\ copyPc' = IF input.SourceType = "Local" /\ input.DestinationType = "Blob"
                            THEN "upload"
                            ELSE IF input.SourceType = "Blob" /\ input.DestinationType = "Local"
                            THEN "download"
                            ELSE "started"
    /\ UNCHANGED <<copyFrame, requests, fileIndex, Transfers, numInTransfers,
                   partNumber, polls>>

\* lines 72-113 and 147-165: a directory starts the listing loop; a single file is
\* dispatched as part 0, the final part
HandleUploadFromLocalToWastore ==
    /\ copyPc = "upload"
    /\ IF commandLineInput.IsDir
       THEN /\ Transfers' = <<>>
            /\ numInTransfers' = 0
            /\ partNumber' = 0
            /\ fileIndex' = 1
            /\ copyPc' = "range"
            /\ UNCHANGED <<jobPartOrder, requests>>
       ELSE /\ jobPartOrder' = [jobPartOrder EXCEPT !.Transfers = <<"singleTask">>,
                                                     !.PartNum = 0,
                                                     !.IsFinalPart = TRUE]
            /\ dispatchJobPartOrderFunc(jobPartOrder')
            /\ copyPc' = "last_sent"
            /\ UNCHANGED <<Transfers, numInTransfers, partNumber, fileIndex>>
    /\ UNCHANGED <<copyFrame, commandLineInput, polls>>

\* faulty variant: the part is dispatched without waiting for the dispatch to return
HandleUploadFromLocalToWastore_range_async ==
    /\ copyPc = "range"
    /\ fileIndex <= Len(commandLineInput.files)
    /\ fileIndex' = fileIndex + 1
    /\ IF commandLineInput.files[fileIndex] # "dir"
       THEN IF numInTransfers + 1 = NumOfFilesPerUploadJobPart
            THEN /\ jobPartOrder' =
                        [jobPartOrder EXCEPT !.Transfers = Append(Transfers, fileIndex),
                                             !.PartNum = partNumber]
                 /\ partNumber' = partNumber + 1
                 /\ dispatchJobPartOrderFunc(jobPartOrder')
                 /\ Transfers' = <<>>
                 /\ numInTransfers' = 0
            ELSE /\ Transfers' = Append(Transfers, fileIndex)
                 /\ numInTransfers' = numInTransfers + 1
                 /\ UNCHANGED <<jobPartOrder, partNumber, requests>>
       ELSE UNCHANGED <<Transfers, numInTransfers, jobPartOrder, partNumber, requests>>
    /\ UNCHANGED <<copyFrame, commandLineInput, polls, copyPc>>

\* lines 115-134, one directory entry: a regular file is collected, and the
\* NumOfFilesPerUploadJobPart-th collected file dispatches a part
HandleUploadFromLocalToWastore_range ==
    /\ copyPc = "range"
    /\ fileIndex <= Len(commandLineInput.files)
    /\ IF commandLineInput.files[fileIndex] # "dir"
       THEN /\ Transfers' = Append(Transfers, fileIndex)
            /\ numInTransfers' = numInTransfers + 1
            /\ IF numInTransfers' = NumOfFilesPerUploadJobPart
               THEN /\ jobPartOrder' = [jobPartOrder EXCEPT !.Transfers = Transfers',
                                                             !.PartNum = partNumber]
                    /\ partNumber' = partNumber + 1
                    /\ dispatchJobPartOrderFunc(jobPartOrder')
                    /\ copyPc' = "range_sent"
                    /\ UNCHANGED fileIndex
               ELSE /\ fileIndex' = fileIndex + 1
                    /\ UNCHANGED <<jobPartOrder, partNumber, requests, copyPc>>
       ELSE /\ fileIndex' = fileIndex + 1
            /\ UNCHANGED <<Transfers, numInTransfers, jobPartOrder, partNumber,
                           requests, copyPc>>
    /\ UNCHANGED <<copyFrame, commandLineInput, polls>>

\* faulty variant: the collected transfers are kept after a part is dispatched
HandleUploadFromLocalToWastore_dispatched_keepsTransfers ==
    /\ copyPc = "range_sent"
    /\ \E StatusCode \in ResponseCodes \cup {0} :
          IF StatusCode = 0
          THEN /\ copyPc' = "panic"
               /\ UNCHANGED <<Transfers, numInTransfers, fileIndex, outcomes>>
          ELSE /\ outcomes' = Append(outcomes, [command |-> [verb |-> "copy", jobId |-> jobPartOrder.ID, transferStatus |-> ""],
                                StatusCode |-> StatusCode, result |-> "sent"])
               /\ numInTransfers' = 0
               /\ fileIndex' = fileIndex + 1
               /\ copyPc' = "range"
               /\ UNCHANGED Transfers
    /\ UNCHANGED <<engineVars, clientPc, command, listOrder, commandsRun, requests, commandLineInput, partNumber,
                   jobPartOrder, polls>>

\* listHandler.go lines 160-167, then part_006 lines 129-130: the response is read
\* to its end, whatever its status code, before the collection is emptied and the
\* loop goes on; a request that got no response (StatusCode 0) panics
HandleUploadFromLocalToWastore_dispatched ==
    /\ copyPc = "range_sent"
    /\ \E StatusCode \in ResponseCodes \cup {0} :
          IF StatusCode = 0
          THEN /\ copyPc' = "panic"
               /\ UNCHANGED <<Transfers, numInTransfers, fileIndex, outcomes>>
          ELSE /\ outcomes' = Append(outcomes, [command |-> [verb |-> "copy", jobId |-> jobPartOrder.ID, transferStatus |-> ""],
                                StatusCode |-> StatusCode, result |-> "sent"])
               /\ Transfers' = <<>>
               /\ numInTransfers' = 0
               /\ fileIndex' = fileIndex + 1
               /\ copyPc' = "range"
    /\ UNCHANGED <<engineVars, clientPc, command, listOrder, commandsRun, requests, commandLineInput, partNumber,
                   jobPartOrder, polls>>

\* lines 136-143: what is left (possibly nothing) is dispatched as the final part
HandleUploadFromLocalToWastore_final ==
    /\ copyPc = "range"
    /\ fileIndex > Len(commandLineInput.files)
    /\ jobPartOrder' = [jobPartOrder EXCEPT
                           !.Transfers = IF numInTransfers # 0 THEN Transfers ELSE <<>>,
                           !.PartNum = partNumber,
                           !.IsFinalPart = TRUE]
    /\ dispatchJobPartOrderFunc(jobPartOrder')
    /\ copyPc' = "last_sent"
    /\ UNCHANGED <<copyFrame, commandLineInput, fileIndex, Transfers, numInTransfers,
                   partNumber, polls>>

\* lines 168-228 and 229-239: a single blob is dispatched as part 0, the final part;
\* a container starts the listing loop
HandleDownloadFromWastoreToLocal ==
    /\ copyPc = "download"
    /\ IF commandLineInput.sourcePathParts > 1
       THEN /\ jobPartOrder' = [jobPartOrder EXCEPT !.Transfers = <<"singleTask">>,
                                                     !.IsFinalPart = TRUE,
                                                     !.PartNum = 0]
            /\ dispatchJobPartOrderFunc(jobPartOrder')
            /\ copyPc' = "last_sent"
            /\ UNCHANGED <<Transfers, partNumber, fileIndex>>
       ELSE /\ Transfers' = <<>>
            /\ partNumber' = 0
            /\ fileIndex' = 1
            /\ copyPc' = "list"
            /\ UNCHANGED <<jobPartOrder, requests>>
    /\ UNCHANGED <<copyFrame, commandLineInput, numInTransfers, polls>>

\* faulty variant: the marker is tested before it is advanced to the next segment
HandleDownloadFromWastoreToLocal_ListBlobs_staleMarker ==
    /\ copyPc = "list"
    /\ fileIndex <= Len(commandLineInput.segments)
    /\ \E err \in BOOLEAN :
          IF err
          THEN /\ copyPc' = "exit"
               /\ UNCHANGED <<Transfers, jobPartOrder, partNumber, requests>>
          ELSE /\ Transfers' = Transfers \o Blob(commandLineInput.segments, fileIndex)
               /\ jobPartOrder' =
                      [jobPartOrder EXCEPT
                          !.Transfers = Transfers',
                          !.PartNum = partNumber,
                          !.IsFinalPart = IF fileIndex - 1 = Len(commandLineInput.segments)
                                          THEN TRUE ELSE @]
               /\ partNumber' = partNumber + 1
               /\ dispatchJobPartOrderFunc(jobPartOrder')
               /\ copyPc' = "list_sent"
    /\ UNCHANGED <<copyFrame, commandLineInput, fileIndex, numInTransfers, polls>>

\* lines 242-260, one segment of the listing: its blobs are appended to Transfers
\* (which is not emptied between segments), and the part is dispatched, as the final
\* part if the marker is done; a listing error ends the process (log.Fatal)
HandleDownloadFromWastoreToLocal_ListBlobs ==
    /\ copyPc = "list"
    /\ fileIndex <= Len(commandLineInput.segments)
    /\ \E err \in BOOLEAN :
          IF err
          THEN /\ copyPc' = "exit"
               /\ UNCHANGED <<Transfers, jobPartOrder, partNumber, requests>>
          ELSE /\ Transfers' = Transfers \o Blob(commandLineInput.segments, fileIndex)
               /\ jobPartOrder' =
                      [jobPartOrder EXCEPT
                          !.Transfers = Transfers',
                          !.PartNum = partNumber,
                          !.IsFinalPart = IF fileIndex = Len(commandLineInput.segments)
                                          THEN TRUE ELSE @]
               /\ partNumber' = partNumber + 1
               /\ dispatchJobPartOrderFunc(jobPartOrder')
               /\ copyPc' = "list_sent"
    /\ UNCHANGED <<copyFrame, commandLineInput, fileIndex, numInTransfers, polls>>

\* listHandler.go lines 160-167, then the loop test of part_006 line 242
HandleDownloadFromWastoreToLocal_dispatched ==
    /\ copyPc = "list_sent"
    /\ \E StatusCode \in ResponseCodes \cup {0} :
          IF StatusCode = 0
          THEN /\ copyPc' = "panic"
               /\ UNCHANGED <<fileIndex, outcomes>>
          ELSE /\ outcomes' = Append(outcomes, [command |-> [verb |-> "copy", jobId |-> jobPartOrder.ID, transferStatus |-> ""],
                                StatusCode |-> StatusCode, result |-> "sent"])
               /\ fileIndex' = fileIndex + 1
               /\ copyPc' = IF fileIndex' <= Len(commandLineInput.segments)
                            THEN "list" ELSE "started"
    /\ UNCHANGED <<engineVars, clientPc, command, listOrder, commandsRun, requests, commandLineInput, Transfers,
                   numInTransfers, partNumber, jobPartOrder, polls>>

\* listHandler.go lines 160-167 for the last dispatch of an upload or a single blob
sendJobPartOrderToSTE_returns ==
    /\ copyPc = "last_sent"
    /\ \E StatusCode \in ResponseCodes \cup {0} :
          IF StatusCode = 0
          THEN /\ copyPc' = "panic"
               /\ UNCHANGED outcomes
          ELSE /\ outcomes' = Append(outcomes, [command |-> [verb |-> "copy", jobId |-> jobPartOrder.ID, transferStatus |-> ""],
                                StatusCode |-> StatusCode, result |-> "sent"])
               /\ copyPc' = "started"
    /\ UNCHANGED <<engineVars, clientPc, command, listOrder, commandsRun, requests, commandLineInput, fileIndex,
                   Transfers, numInTransfers, partNumber, jobPartOrder, polls>>

\* part_006 lines 64-67: a background command returns the job id at once
HandleCopyCommand_return ==
    /\ copyPc = "started"
    /\ commandLineInput.IsaBackgroundOp
    /\ copyPc' = "done"
    /\ UNCHANGED <<copyFrame, requests, commandLineInput, fileIndex, Transfers,
                   numInTransfers, partNumber, jobPartOrder, polls>>

\* lines 68-71: otherwise the job's progress is polled until it is completed
HandleCopyCommand_fetchJobStatus ==
    /\ copyPc = "started"
    /\ ~commandLineInput.IsaBackgroundOp
    /\ polls < MaxPolls
    /\ polls' = polls + 1
    /\ LET cmd == [verb |-> "status", jobId |-> jobPartOrder.ID, transferStatus |-> ""]
           lsCommand == [JobId |-> jobPartOrder.ID, ExpectedTransferStatus |-> MaxUint8]
       IN requests' = Append(requests, ListRequest(cmd, lsCommand))
    /\ \E jobStatus \in {"StatusCompleted", "StatusInProgress", "panic"} :
          copyPc' = CASE jobStatus = "StatusCompleted" -> "done"
                      [] jobStatus = "StatusInProgress" -> "started"
                      [] OTHER -> "panic"
    /\ UNCHANGED <<copyFrame, commandLineInput, fileIndex, Transfers, numInTransfers,
                   partNumber, jobPartOrder>>

NextCopy ==
    \/ \E input \in CopyInputs : HandleCopyCommand(input)
    \/ HandleUploadFromLocalToWastore
    \/ HandleUploadFromLocalToWastore_range
    \/ HandleUploadFromLocalToWastore_dispatched
    \/ HandleUploadFromLocalToWastore_final
    \/ HandleDownloadFromWastoreToLocal
    \/ HandleDownloadFromWastoreToLocal_ListBlobs
    \/ HandleDownloadFromWastoreToLocal_dispatched
    \/ sendJobPartOrderToSTE_returns
    \/ HandleCopyCommand_return
    \/ HandleCopyCommand_fetchJobStatus

SpecCopy == InitClient /\ [][NextCopy]_vars

(* ---- copyS2SMigrationEnumeratorBase: cmd/copyS2SMigrationEnumeratorBase.go ---- *)

\* the values of e.FromTo looked at: the three with a blob destination, and others
BlobDestinations == {"BlobBlob", "FileBlob", "S3Blob"}
FromTos == BlobDestinations \cup {"BlobFile", "LocalBlob"}

\* how containerURL.Create may return: without error, with a storage error (its service
\* code and the status code of its response), or with an error of another type
CreateResults ==
    {[err |-> FALSE, StorageError |-> FALSE, ServiceCode |-> "", StatusCode |-> 201],
     [err |-> TRUE, StorageError |-> TRUE, ServiceCode |-> "ContainerAlreadyExists", StatusCode |-> 409],
     [err |-> TRUE, StorageError |-> TRUE, ServiceCode |-> "AuthorizationFailure", StatusCode |-> 403],
     [err |-> TRUE, StorageError |-> TRUE, ServiceCode |-> "ContainerBeingDeleted", StatusCode |-> 409],
     [err |-> TRUE, StorageError |-> TRUE, ServiceCode |-> "InternalError", StatusCode |-> 500],
     [err |-> TRUE, StorageError |-> FALSE, ServiceCode |-> "", StatusCode |-> 0]}

\* a call is made on an enumerator that has not panicked
EnumeratorReady ==
    /\ Len(calls) < MaxCalls
    /\ \A i \in 1 .. Len(calls) : calls[i].result # "panic"

\* the call returns (or panics): what it was given, what it found and what it did
Returns(func, input, remote, result) ==
    calls' = Append(calls, [func |-> func, input |-> input, pipeline |-> destBlobPipeline,
                            remote |-> remote, result |-> result])

enumFrame == <<transferVars, prologueVars, chunkChannel, pc, localVars, ctxErr,
               planVars, chunksDone, transfersDone, blockIds, unmapCalls,
               currentBytes, nextUUID, remoteVars, histVars, scheduled, putBlobResult,
               jptmVars, clientVars, copyVars>>

\* lines 48-60: a blob destination gets its pipeline, unless making it fails
initDestPipeline(createBlobPipelineErr) ==
    IF FromTo \in BlobDestinations /\ ~createBlobPipelineErr
    THEN destBlobPipeline' = "p"
    ELSE UNCHANGED destBlobPipeline

\* lines 31-45: the two URLs are parsed, then the destination pipeline is made
initEnumeratorCommon(sourceParses, destParses, createBlobPipelineErr) ==
    /\ EnumeratorReady
    /\ IF ~sourceParses
       THEN /\ Returns("initEnumeratorCommon", "", "none", "cannot parse source URL")
            /\ UNCHANGED destBlobPipeline
       ELSE IF ~destParses
       THEN /\ Returns("initEnumeratorCommon", "", "none", "cannot parse destination URL")
            /\ UNCHANGED destBlobPipeline
       ELSE /\ initDestPipeline(createBlobPipelineErr)
            /\ Returns("initEnumeratorCommon", "", "none",
                       IF FromTo \in BlobDestinations /\ createBlobPipelineErr
                       THEN "error" ELSE "nil")
    /\ UNCHANGED <<enumFrame, FromTo>>

\* faulty variant: lines 64-86 with a response of 403 Forbidden not skipped
createDestBucket_forbiddenFails(created) ==
    /\ EnumeratorReady
    /\ IF FromTo \in BlobDestinations
       THEN IF destBlobPipeline = "nil"
            THEN Returns("createDestBucket", created, "none", "panic")
            ELSE Returns("createDestBucket", created, "Create",
                         IF created.err /\ (~created.StorageError
                                            \/ created.ServiceCode # "ContainerAlreadyExists")
                         THEN "fail to create container" ELSE "nil")
       ELSE Returns("createDestBucket", created, "none", "nil")
    /\ UNCHANGED <<enumFrame, FromTo, destBlobPipeline>>

\* lines 64-86: for a blob destination the container is created; the error is skipped
\* when the container exists already or the response is 403 Forbidden
createDestBucket(created) ==
    /\ EnumeratorReady
    /\ IF FromTo \in BlobDestinations
       THEN IF destBlobPipeline = "nil"
            THEN Returns("createDestBucket", created, "none", "panic")
            ELSE Returns("createDestBucket", created, "Create",
                         IF created.err /\ (~created.StorageError
                                            \/ (created.ServiceCode # "ContainerAlreadyExists"
                                                /\ created.StatusCode # 403))
                         THEN "fail to create container" ELSE "nil")
       ELSE Returns("createDestBucket", created, "none", "nil")
    /\ UNCHANGED <<enumFrame, FromTo, destBlobPipeline>>

\* lines 89-103: for a blob destination the service's properties are fetched
validateDestIsService(getPropertiesErr) ==
    /\ EnumeratorReady
    /\ IF FromTo \in BlobDestinations
       THEN IF destBlobPipeline = "nil"
            THEN Returns("validateDestIsService", getPropertiesErr, "none", "panic")
            ELSE Returns("validateDestIsService", getPropertiesErr, "GetProperties",
                         IF getPropertiesErr
                         THEN "invalid source and destination combination" ELSE "nil")
       ELSE Returns("validateDestIsService", getPropertiesErr, "none", "nil")
    /\ UNCHANGED <<enumFrame, FromTo, destBlobPipeline>>

\* an enumerator of any kind, nothing else running
InitEnumerator ==
    /\ revision = "part_003"
    /\ blobSize = 1
    /\ chunkSize = 1
    /\ numOfBlocks = 1
    /\ sourceMutated = FALSE
    /\ forceWrite = TRUE
    /\ prologuePc = "start"
    /\ TransferStart
    /\ JptmStart
    /\ ClientStart
    /\ CopyStart
    /\ FromTo \in FromTos
    /\ destBlobPipeline = "nil"
    /\ calls = <<>>

NextEnumerator ==
    \/ \E sourceParses, destParses, createBlobPipelineErr \in BOOLEAN :
          initEnumeratorCommon(sourceParses, destParses, createBlobPipelineErr)
    \/ \E created \in CreateResults : createDestBucket(created)
    \/ \E getPropertiesErr \in BOOLEAN : validateDestIsService(getPropertiesErr)

SpecEnumerator == InitEnumerator /\ [][NextEnumerator]_vars

(* ---- properties of the chunk functions ---- *)

\* the transfer is cut in chunks (no put-blob fast path)
ChunkedPath == ~(revision = "part_003" /\ blobSize <= chunkSize)

\* every chunk was scheduled and every closure has returned
AllClosuresReturned ==
    /\ ChunkedPath
    /\ prologuePc = "done"
    /\ chunkChannel = <<>>
    /\ \A w \in Workers : pc[w] = "idle"

\* a worker is running the closure of chunk c
Running(c) == \E w \in Workers : msg[w].chunkId = c

\* the chunks whose put_block returned without error
PutBlockSucceeded == {c \in ChunkIds : putBlockIds[c] # NoId /\ ~Running(c) /\ c \notin putBlockFailed}

\* C1: the finalization of a chunked transfer (the last-chunk branch, and in part_003
\* its TransferDone) has run exactly once when all N closures have returned, and never
\* more than once before.
C1_EpilogueExactlyOnce ==
    ChunkedPath =>
        /\ epilogueRuns <= 1
        /\ transfersDone <= 1
        /\ AllClosuresReturned =>
              /\ epilogueRuns = 1
              /\ revision = "part_003" => transfersDone = 1

\* C2: once the status is Complete or Failed, no step changes it.
C2_TerminalStatusNeverChanges ==
    [][(status \in {TransferComplete, TransferFailed}) => (status' = status)]_vars

\* C3: after a failed put_block_list the transfer ends Failed and is finalized.
C3_FailedCommitEndsFailed ==
    (putBlockListFailed /\ AllClosuresReturned) =>
        /\ status = TransferFailed
        /\ epilogueRuns = 1
        /\ revision = "part_003" => transfersDone = 1

C5_ChunksDoneReachesTotal ==
    /\ chunksDone <= numOfBlocks
    /\ AllClosuresReturned => chunksDone = numOfBlocks

\* C6: a transfer whose chunks were all scheduled and whose closures have all returned
\* has been finalized (reported Done), also after failures and cancellation.
C6_AllReturnedIsDone ==
    AllClosuresReturned =>
        IF revision = "part_003" THEN transfersDone >= 1 ELSE epilogueRuns >= 1

\* C7: when the cancel token trips while a closure has not yet started, no
\* put_block_list is ever issued.
C7_NoCommitAfterMidTransferCancel ==
    trippedWithUnstarted => putBlockLists = <<>>

\* C7 witness: a cancel request arrived mid-transfer, after a put_block had succeeded,
\* and all closures have returned.
C7_Witness ==
    /\ AllClosuresReturned
    /\ trippedWithUnstarted
    /\ cancelRequested
    /\ PutBlockSucceeded # {}

\* C8: a transfer cancelled by request before its last chunk was counted, with no
\* failed chunk, has status Failed once it is reported Done.
C8_CancelledEndsFailed ==
    (ChunkedPath /\ cancelBeforeLastChunk /\ putBlockFailed = {} /\ transfersDone >= 1) =>
        status = TransferFailed

\* C9: a closure started after the cancel token tripped issues no put_block.
C9_NoPutBlockAfterTrip ==
    \A c \in startedAfterTrip : putBlockIds[c] = NoId

\* C10: every list passed to put_block_list has numOfBlocks entries, entry i is the id
\* chunk i passed to its own put_block, no entry is empty and all are distinct; a
\* closure has saved its id at its own position before it issues put_block.
C10_BlockList ==
    /\ \A c \in ChunkIds : putBlockIds[c] # NoId => blockIds[c] = putBlockIds[c]
    /\ \A n \in 1 .. Len(putBlockLists) :
          LET list == putBlockLists[n] IN
             /\ Len(list) = numOfBlocks
             /\ \A i \in 1 .. Len(list) :
                   /\ list[i] # NoId
                   /\ list[i] = putBlockIds[i - 1]
                   /\ \A j \in 1 .. Len(list) : i # j => list[i] # list[j]

\* C10 witness: a put_block_list was issued for a transfer of at least three chunks.
C10_Witness ==
    /\ Len(putBlockLists) = 1
    /\ numOfBlocks >= 3

(* ---- properties of the prologues ---- *)

\* the prologue has returned after its scheduling loop or its put_blob
PrologueReturned == prologuePc = "done"

C12_ChunkRanges ==
    LET Min(a, b) == IF a < b THEN a ELSE b
        \* the least n with n * B >= S
        CeilDiv(S, B) == CHOOSE n \in 0 .. S : n * B >= S /\ (n = 0 \/ (n - 1) * B < S)
        \* the scheduled chunks whose byte range holds offset b
        Covering(b) == {k \in 1 .. Len(scheduled) :
                          /\ scheduled[k].startIndex <= b
                          /\ b < scheduled[k].startIndex + scheduled[k].chunkSize}
    IN (blobSize > 0 /\ ChunkedPath) =>
          /\ \A k \in 1 .. Len(scheduled) :
                /\ scheduled[k].startIndex = (k - 1) * chunkSize
                /\ scheduled[k].chunkSize = Min(chunkSize, blobSize - (k - 1) * chunkSize)
                /\ scheduled[k].chunkSize > 0
          /\ Len(scheduled) <= CeilDiv(blobSize, chunkSize)
          /\ PrologueReturned =>
                /\ Len(scheduled) = CeilDiv(blobSize, chunkSize)
                /\ \A b \in 0 .. (blobSize - 1) : Cardinality(Covering(b)) = 1
                /\ blobSize % chunkSize = 0 =>
                      scheduled[Len(scheduled)].chunkSize = chunkSize

\* C12 witness: 5 units in blocks of 2 were cut in three chunks (the 4, 4, 2 MiB case).
C12_Witness ==
    /\ revision = "part_003"
    /\ blobSize = 5
    /\ chunkSize = 2
    /\ PrologueReturned
    /\ Len(scheduled) = 3

\* C13: the k-th chunk message enqueued carries chunk index k-1, and the offsets of the
\* enqueued messages strictly ascend.
C13_ScheduledInOrder ==
    \A k \in 1 .. Len(scheduled) :
        /\ scheduled[k].chunkId = k - 1
        /\ k > 1 => scheduled[k].startIndex > scheduled[k - 1].startIndex

\* C13 witness: anyToRemote has scheduled at least three chunks and returned.
C13_Witness ==
    /\ revision = "part_004"
    /\ PrologueReturned
    /\ Len(scheduled) >= 3

\* C14: when the prologue of a zero-byte source has returned, one (dummy) chunk was
\* scheduled or the transfer was finalized inline; with neither, no closure is left to
\* finalize the transfer and it stays in progress forever.
C14_ZeroByteFile ==
    (blobSize = 0 /\ PrologueReturned) => (Len(scheduled) = 1 \/ transfersDone = 1)

\* C15: a transfer whose source changed size gets no put_blob and no chunk (hence no
\* put_block and no put_block_list), and is Failed when its prologue has returned.
C15_SourceMutatedFails ==
    (revision \in Revisions /\ sourceMutated) =>
        /\ putBlobs = 0
        /\ scheduled = <<>>
        /\ PrologueReturned => status = TransferFailed

\* C16: in anyToRemote the destination's existence is checked at most once and never
\* with force-write; an existing destination ends the transfer FileAlreadyExistsFailure,
\* a failed check ends it Failed, both reported done exactly once with no sender
\* prologue run and no chunk scheduled.
C16_OverwriteCheck ==
    revision = "part_004" =>
        /\ forceWrite => existence = <<>>
        /\ Len(existence) <= 1
        /\ \A i \in 1 .. Len(existence) :
              existence[i] \in {"exists", "error"} =>
                 /\ jptmStatus = IF existence[i] = "exists"
                                 THEN "FileAlreadyExistsFailure" ELSE "Failed"
                 /\ transfersDone = 1
                 /\ prologueCalls = <<>>
                 /\ scheduled = <<>>
                 /\ numberOfChunks = -1
                 /\ prologuePc = "exit"

\* C16 witness: without force-write the destination was found to exist.
C16_Witness ==
    /\ revision = "part_004"
    /\ ~forceWrite
    /\ existence = <<"exists">>
    /\ jptmStatus = "FileAlreadyExistsFailure"
    /\ transfersDone = 1

(* ---- properties of the client ---- *)

\* the verb of the control plane a command stands for (the progress poll is a list)
VerbOf(cmd) == IF cmd.verb = "status" THEN "list" ELSE cmd.verb

\* C17: every request the pause command sends carries the command type pause (so
\* never resume).
C17_PauseSendsPause ==
    \A i \in 1 .. Len(requests) :
        requests[i].from.verb = "pause" =>
            /\ "commandType" \in DOMAIN requests[i].query
            /\ requests[i].query.commandType = "pause"

\* C18: every request sent carries a commandType parameter naming the verb of the
\* command that sent it.
C18_CommandTypeNamesVerb ==
    \A i \in 1 .. Len(requests) :
        /\ "commandType" \in DOMAIN requests[i].query
        /\ requests[i].query.commandType = VerbOf(requests[i].from)

C20_AnySentinel ==
    \A i \in 1 .. Len(requests) :
        (VerbOf(requests[i].from) = "list"
            /\ requests[i].from.transferStatus \in {"", "TranferStatusAll"}) =>
           LET sent == requests[i].query.command.ExpectedTransferStatus
           IN /\ sent = MaxUint8
              /\ sent = TranferStatusAll
              /\ sent = TransferAny
              /\ TransferStatusCodeToString(sent) = "TranferStatusAll"

(* ---- the list command with a status filter ---- *)

\* C21: every list command given the filter "TransferFailed" has sent a list order
\* whose expected transfer status is the Failed code (2).
C21_FailedFilterAccepted ==
    \A i \in 1 .. Len(outcomes) :
        (outcomes[i].command.verb = "list"
            /\ outcomes[i].command.transferStatus = "TransferFailed") =>
           \E k \in 1 .. Len(requests) :
               /\ requests[k].from = outcomes[i].command
               /\ requests[k].query.command.ExpectedTransferStatus = TransferFailed

(* ---- properties of the copy handler ---- *)

\* the job part orders sent to the engine so far, in the order they were sent
dispatched ==
    LET copies == SelectSeq(requests, LAMBDA r : r.from.verb = "copy")
    IN [i \in 1 .. Len(copies) |-> copies[i].body]

\* C22: in a directory upload the parts sent are numbered 0, 1, 2, ... in the order
\* they are sent; a part that is not final holds exactly NumOfFilesPerUploadJobPart
\* transfers and the final part at most that many; only regular files are sent and
\* none twice; once the final part is sent, every regular file is in exactly one
\* part, so the parts hold as many transfers as the directory has regular files.
C22_DirectoryParts ==
    (commandLineInput.SourceType = "Local" /\ commandLineInput.IsDir) =>
        LET files == commandLineInput.files
            regular == {f \in 1 .. Len(files) : files[f] # "dir"}
            holds(i, f) == \E t \in 1 .. Len(dispatched[i].Transfers) :
                               dispatched[i].Transfers[t] = f
            count(i) == Len(dispatched[i].Transfers)
            RECURSIVE total(_)
            total(i) == IF i = 0 THEN 0 ELSE total(i - 1) + count(i)
            n == Len(dispatched)
        IN /\ \A i \in 1 .. n :
                /\ dispatched[i].PartNum = i - 1
                /\ IF dispatched[i].IsFinalPart
                   THEN count(i) <= NumOfFilesPerUploadJobPart
                   ELSE count(i) = NumOfFilesPerUploadJobPart
                /\ \A t \in 1 .. count(i) : dispatched[i].Transfers[t] \in regular
                /\ \A t, u \in 1 .. count(i) :
                       dispatched[i].Transfers[t] = dispatched[i].Transfers[u] => t = u
           /\ \A i, j \in 1 .. n : \A f \in regular :
                  (holds(i, f) /\ holds(j, f)) => i = j
           /\ (n > 0 /\ dispatched[n].IsFinalPart) =>
                  /\ \A f \in regular : \E i \in 1 .. n : holds(i, f)
                  /\ total(n) = Cardinality(regular)

\* five regular files (and a sub-directory between them) were sent as parts 0, 1, 2
\* with 2, 2 and 1 transfers, and the handler went on
C22_Witness ==
    /\ commandLineInput.SourceType = "Local"
    /\ commandLineInput.IsDir
    /\ commandLineInput.files = <<"file", "file", "dir", "file", "file", "file">>
    /\ Len(dispatched) = 3
    /\ Len(dispatched[1].Transfers) = 2
    /\ Len(dispatched[2].Transfers) = 2
    /\ Len(dispatched[3].Transfers) = 1
    /\ dispatched[3].IsFinalPart
    /\ copyPc = "started"

\* C23: in every copy job (single file, directory, single blob, container) only the
\* part sent last may be marked final, the part numbers ascend so that it has the
\* highest number of the job, and once the handler has sent all the parts of the
\* job, exactly one part, the last one, is marked final.
C23_OneFinalPart ==
    LET n == Len(dispatched)
    IN /\ \A i \in 1 .. n : dispatched[i].IsFinalPart => i = n
       /\ \A i, j \in 1 .. n : i < j => dispatched[i].PartNum < dispatched[j].PartNum
       /\ (copyPc \in {"last_sent", "started", "done"}
              /\ <<commandLineInput.SourceType, commandLineInput.DestinationType>>
                     \in {<<"Local", "Blob">>, <<"Blob", "Local">>}) =>
              /\ n > 0
              /\ dispatched[n].IsFinalPart
              /\ Cardinality({i \in 1 .. n : dispatched[i].IsFinalPart}) = 1

\* a container listed in three segments was sent as parts 0, 1, 2, the last one final
C23_Witness ==
    /\ commandLineInput.SourceType = "Blob"
    /\ Len(commandLineInput.segments) = 3
    /\ Len(dispatched) = 3
    /\ ~dispatched[1].IsFinalPart
    /\ ~dispatched[2].IsFinalPart
    /\ dispatched[3].IsFinalPart
    /\ dispatched[3].PartNum = 2
    /\ copyPc = "started"

\* C24: the parts of a job are sent in ascending part-number order, and at most one
\* copy request is without its response at any time: every request sent before the
\* last one has had its response read.
C24_OnePartInFlight ==
    LET n == Len(dispatched)
        read == Len(SelectSeq(outcomes, LAMBDA o : o.command.verb = "copy"))
    IN /\ \A i, j \in 1 .. n : i < j => dispatched[i].PartNum < dispatched[j].PartNum
       /\ read <= n
       /\ n - read <= 1
       /\ copyPc \in {"range_sent", "list_sent", "last_sent"} <=> n - read = 1 /\ copyPc # "panic"

\* the third part of a directory upload is in flight: the responses to the first two
\* have been read
C24_Witness ==
    /\ commandLineInput.IsDir
    /\ Len(dispatched) = 3
    /\ Len(outcomes) = 2
    /\ copyPc = "last_sent"

(* ---- the throughput counter ---- *)

\* C25: the throughput counter never decreases; at any time it equals the sum of the
\* lengths of the chunks whose put_block returned without error and whose closure
\* has passed the counter update, so a failed or skipped chunk adds nothing and a
\* successful one adds its length once; after a chunked upload that completed it
\* equals the size of the source.
C25_ThroughputCounter ==
    /\ [][currentBytes' >= currentBytes]_vars
    /\ [](LET length(c) == IF (c + 1) * chunkSize <= blobSize
                           THEN chunkSize ELSE blobSize - c * chunkSize
              beforeUpdate == {"L130_wait", "L163", "R98_wait", "R109", "R110"}
              counted == {c \in ChunkIds :
                             /\ putBlockIds[c] # NoId
                             /\ c \notin putBlockFailed
                             /\ ~\E w \in Workers :
                                    msg[w].chunkId = c /\ pc[w] \in beforeUpdate}
              RECURSIVE sum(_)
              sum(c) == IF c < 0 THEN 0
                        ELSE sum(c - 1) + IF c \in counted THEN length(c) ELSE 0
          IN /\ ChunkedPath => currentBytes = sum(numOfBlocks - 1)
             /\ (AllClosuresReturned /\ status = TransferComplete /\ putBlockFailed = {}
                    /\ startedAfterTrip = {}) => currentBytes = blobSize)

\* a source of three bytes was uploaded in blocks of two, both chunks succeeded and
\* the counter stands at three
C25_Witness ==
    /\ revision = "part_003"
    /\ blobSize = 3
    /\ chunkSize = 2
    /\ AllClosuresReturned
    /\ status = TransferComplete
    /\ putBlockFailed = {}
    /\ currentBytes = 3

(* ---- termination of the scheduling loop ---- *)

C27_ReportOnEveryExit ==
    revision = "part_004" =>
        /\ prologuePc = "exit" =>
               /\ transfersDone = 1
               /\ scheduled = <<>>
               /\ prologueCalls = <<>>
               /\ ~actionAfterLastChunk
        /\ prologuePc = "exit" => epilogueRuns = 0
        /\ prologuePc # "exit" => transfersDone = epilogueRuns
        /\ prologuePc \in {"A131", "done", "panic173"} => actionAfterLastChunk

\* a transfer that was cancelled before anyToRemote ran was reported done, once, with
\* its status left as it was
C27_Witness ==
    /\ revision = "part_004"
    /\ ctxErr
    /\ prologuePc = "exit"
    /\ transfersDone = 1
    /\ jptmStatus = "NotSet"

\* C28: the count announced to the transfer manager is the sender's and is never
\* zero; anyToRemote returns from the scheduling loop only if it scheduled exactly
\* that many chunks and panics otherwise; a sender that reports zero chunks panics
\* with nothing announced, nothing scheduled, no status set and no report made.
C28_ScheduledIsAnnounced ==
    revision = "part_004" =>
        /\ numberOfChunks # -1 => numberOfChunks = numOfBlocks /\ numberOfChunks > 0
        /\ prologuePc = "done" => Len(scheduled) = numberOfChunks
        /\ prologuePc = "panic173" => Len(scheduled) # numberOfChunks
        /\ numOfBlocks = 0 =>
               /\ prologuePc \in {"A38", "A44", "A51", "A59", "exit", "panic65"}
               /\ numberOfChunks = -1
               /\ scheduled = <<>>
        /\ prologuePc = "panic65" =>
               jptmStatus \in {"NotSet", "Started"} /\ transfersDone = 0

\* a sender announced two chunks for a source that is cut in three, and the routine
\* panicked after the loop
C28_Witness ==
    /\ revision = "part_004"
    /\ numberOfChunks = 2
    /\ Len(scheduled) = 3
    /\ prologuePc = "panic173"

\* C29: the sender's Prologue is run at most once, with no chunk scheduled before it
\* and with the chunk count and the after-last-chunk action registered; a chunk is
\* scheduled only after it has run; on an early exit it has not run, and when the
\* scheduling loop is over it has run exactly once.
C29_PrologueOnce ==
    revision = "part_004" =>
        /\ Len(prologueCalls) <= 1
        /\ prologueCalls # <<>> =>
               /\ prologueCalls[1] = 0
               /\ numberOfChunks # -1
               /\ actionAfterLastChunk
        /\ scheduled # <<>> => Len(prologueCalls) = 1
        /\ prologuePc = "exit" => prologueCalls = <<>>
        /\ prologuePc \in {"done", "panic173"} => Len(prologueCalls) = 1

\* the first of several chunks has been scheduled, the Prologue having run before it
C29_Witness ==
    /\ revision = "part_004"
    /\ prologuePc = "A131"
    /\ blobSize > chunkSize
    /\ Len(scheduled) = 1
    /\ prologueCalls = <<0>>
    /\ actionAfterLastChunk

(* ---- the epilogue of part_004 ---- *)

\* C30: no step turns a failed or cancelled (below zero) status into Success; the
\* epilogue's status step panics on a status of zero and changes nothing, sets a
\* status above zero to Success and leaves a status below zero as it is; the epilogue
\* reports the transfer done at most once, and at its report the status is Success
\* or below zero and is not changed any more by the epilogue.
C30_EpilogueKeepsFailure ==
    /\ [][TransferStatusSign(jptmStatus) < 0 => jptmStatus' # "Success"]_vars
    /\ [][\A w \in Workers :
            (pc[w] = "E204" /\ pc'[w] # "E204") =>
                CASE TransferStatusSign(jptmStatus) = 0 ->
                        pc'[w] = "panic205" /\ jptmStatus' = jptmStatus
                  [] TransferStatusSign(jptmStatus) > 0 ->
                        pc'[w] = "E234" /\ jptmStatus' = "Success"
                  [] OTHER ->
                        pc'[w] = "E234" /\ jptmStatus' = jptmStatus]_vars
    /\ [][\A w \in Workers :
            (pc[w] = "E234" /\ pc'[w] # "E234") =>
                /\ transfersDone' = transfersDone + 1
                /\ jptmStatus' = jptmStatus
                /\ (jptmStatus = "Success" \/ TransferStatusSign(jptmStatus) < 0)]_vars
    /\ [](epilogueRuns <= 1)
    /\ []((revision = "part_004" /\ epilogueRuns = 1) => transfersDone = 1)

\* a transfer whose chunk failed went through the epilogue and was reported done with
\* its status still Failed
C30_Witness ==
    /\ revision = "part_004"
    /\ epilogueRuns = 1
    /\ transfersDone = 1
    /\ jptmStatus = "Failed"
    /\ prologuePc = "done"

(* ---- properties of the finalization ---- *)

\* C31: whenever the transfer has been reported Done, its status is terminal (Complete
\* or Failed), never still in progress, on every path of the chunk function.
C31_DoneIsTerminal ==
    transfersDone >= 1 => status \in {TransferComplete, TransferFailed}

\* C32: once a transfer has been finalized (reported Done) and the code that finalized
\* it has returned, the source file's memory mapping has been unmapped exactly once;
\* it is never unmapped twice.
C32_UnmappedOnce ==
    /\ unmapCalls <= 1
    /\ (/\ transfersDone >= 1
        /\ prologuePc = "done"
        /\ \A w \in Workers : pc[w] = "idle") => unmapCalls = 1

\* a put_block, which reads the source mapping, is in flight
ReadingMapping == \E w \in Workers : pc[w] \in {"L130_wait", "R98_wait"}

\* C33: the source mapping is unmapped at most once, and only by the code that counted
\* the last chunk (or by put_blob, which has no chunks); when it is unmapped no
\* put_block is in flight and no closure is still to start, and after it no put_block,
\* put_block_list (with its header-sniffing read) or put_blob is issued any more.
C33_NoUseAfterUnmap ==
    /\ [](unmapCalls <= 1)
    /\ [](unmapCalls >= 1 =>
             /\ ~ReadingMapping
             /\ chunkChannel = <<>>
             /\ ChunkedPath => blockIdCount = numOfBlocks
             /\ \A w \in Workers : pc[w] = "idle")
    /\ [][unmapCalls >= 1 => remoteVars' = remoteVars]_vars
    /\ [][unmapCalls' # unmapCalls =>
             /\ unmapCalls' = unmapCalls + 1
             /\ ChunkedPath => chunksDone = numOfBlocks]_vars

\* C33 witness: a transfer of several chunks was unmapped by a closure whose put_block
\* failed, after another closure's put_block had succeeded.
C33_Witness ==
    /\ unmapCalls = 1
    /\ numOfBlocks >= 2
    /\ putBlockFailed # {}
    /\ PutBlockSucceeded # {}
    /\ revision = "part_003"

\* C34: a step changes at most the status slot of the chunk whose closure takes it, and
\* only from Inactive to Complete or Failed (so a slot is written at most once and a
\* terminal slot never changes); once a closure has returned, its chunk's slot is
\* Complete if its put_block succeeded and Failed if it failed.
C34_ChunkSlots ==
    /\ [][\A c \in ChunkIds :
             chunkStatus'[c] # chunkStatus[c] =>
                /\ chunkStatus[c] = ChunkTransferStatusInactive
                /\ chunkStatus'[c] \in {ChunkTransferStatusComplete, ChunkTransferStatusFailed}
                /\ \E w \in Workers : msg[w].chunkId = c /\ pc'[w] # pc[w]]_vars
    /\ [](\A c \in ChunkIds :
             /\ c \in PutBlockSucceeded => chunkStatus[c] = ChunkTransferStatusComplete
             /\ (c \in putBlockFailed /\ ~Running(c)) =>
                   chunkStatus[c] = ChunkTransferStatusFailed)

(* ---- properties of the copy command, continued ---- *)

\* C35: in a container download no blob is in the transfer list of two dispatched
\* parts (nor twice in one), so the parts together hold each listed blob once.
C35_BlobInOnePart ==
    (commandLineInput.SourceType = "Blob" /\ commandLineInput.sourcePathParts = 1) =>
        \A i, j \in 1 .. Len(dispatched) :
            \A s \in 1 .. Len(dispatched[i].Transfers), t \in 1 .. Len(dispatched[j].Transfers) :
                dispatched[i].Transfers[s] = dispatched[j].Transfers[t] => (i = j /\ s = t)

\* C36: in the upload of a directory with n > 0 regular files no dispatched part has an
\* empty transfer list, and once all parts are sent their number is
\* ceil(n / NumOfFilesPerUploadJobPart).
C36_NoEmptyPart ==
    LET files == commandLineInput.files
        n == Cardinality({f \in 1 .. Len(files) : files[f] # "dir"})
    IN (commandLineInput.SourceType = "Local" /\ commandLineInput.IsDir /\ n > 0) =>
          /\ \A i \in 1 .. Len(dispatched) : dispatched[i].Transfers # <<>>
          /\ copyPc = "started" =>
                Len(dispatched) = (n + NumOfFilesPerUploadJobPart - 1) \div NumOfFilesPerUploadJobPart

(* ---- the names and codes of the transfer statuses ---- *)

\* C37: the name of every defined status code parses back to that code, and the code
\* parsed from every accepted name converts back to that name, for both pairs of
\* conversion functions; in particular the status filter of every list order sent
\* converts back to the name the command line gave.
C37_StatusRoundTrip ==
    /\ \A i \in 1 .. Len(requests) :
          (VerbOf(requests[i].from) = "list" /\ requests[i].from.transferStatus # "") =>
              TransferStatusCodeToString(requests[i].query.command.ExpectedTransferStatus)
                  = requests[i].from.transferStatus
    /\ \A c \in {0, 1, 2, TranferStatusAll} :
          TransferStatusStringToStatusCode(TransferStatusCodeToString(c)) = c
    /\ \A c \in {TransferInProgress, TransferComplete, TransferFailed, TransferAny} :
          TransferStatusStringToCode(String(c)) = c
    /\ \A s \in {"TransferInProgress", "TransferComplete", "TransferFailed", "TransferAny"} :
          String(TransferStatusStringToCode(s)) = s

(* ---- the cancel, pause and resume commands ---- *)

\* C38: a cancel, pause or resume command whose job id does not parse sends no request
\* and changes nothing of the engine; one whose job id parses sends exactly one
\* request, a POST carrying the job id; and a command reports success only when the
\* response status is 202 Accepted.
C38_JobCommands ==
    /\ [](\A v \in {"cancel", "pause", "resume"}, j \in JobIdStrings :
             LET cmd == [verb |-> v, jobId |-> j, transferStatus |-> ""]
                 sent == {k \in 1 .. Len(requests) : requests[k].from = cmd}
                 run == {i \in 1 .. Len(outcomes) : outcomes[i].command = cmd}
                 running == IF clientPc = "sent" /\ command = cmd THEN 1 ELSE 0
             IN /\ Cardinality(sent) = IF ParseUUID(j) THEN Cardinality(run) + running ELSE 0
                /\ \A k \in sent : requests[k].method = "POST" /\ requests[k].body = j
                /\ \A i \in run :
                      /\ ~ParseUUID(j) => outcomes[i].result = "invalid jobId"
                      /\ outcomes[i].result \in {"cancelled successfully", "paused successfully",
                                                 "resume successfully"}
                            <=> (ParseUUID(j) /\ outcomes[i].StatusCode = StatusAccepted))
    /\ [][(Len(outcomes') > Len(outcomes)
             /\ outcomes'[Len(outcomes')].result = "invalid jobId") =>
                (requests' = requests /\ engineVars' = engineVars)]_vars

\* C38 witness: a command with a malformed job id was refused, then a pause with a
\* well-formed id was sent and accepted.
C38_Witness ==
    /\ Len(outcomes) = 2
    /\ outcomes[1].command.verb \in {"cancel", "pause", "resume"}
    /\ outcomes[1].command.jobId = "not-a-uuid"
    /\ outcomes[1].result = "invalid jobId"
    /\ outcomes[2].command.verb = "pause"
    /\ outcomes[2].StatusCode = StatusAccepted
    /\ outcomes[2].result = "paused successfully"
    /\ Len(requests) = 1

(* ---- properties of the enumerator base ---- *)

\* C39: a call of createDestBucket for a blob destination whose pipeline is set creates
\* the container and returns no error exactly when the creation succeeds or fails with
\* a storage error that says ContainerAlreadyExists or carries status 403; for any other
\* FromTo createDestBucket and validateDestIsService return no error and call nothing
\* remote; for a blob destination whose pipeline is not set both panic and call nothing
\* remote; the pipeline is set only by an initEnumeratorCommon that returned no error.
C39_CreateDestBucket ==
    /\ \A i \in 1 .. Len(calls) :
          LET c == calls[i]
          IN /\ (c.func \in {"createDestBucket", "validateDestIsService"}
                    /\ FromTo \notin BlobDestinations) =>
                   (c.result = "nil" /\ c.remote = "none")
             /\ (c.func \in {"createDestBucket", "validateDestIsService"}
                    /\ FromTo \in BlobDestinations /\ c.pipeline = "nil") =>
                   (c.result = "panic" /\ c.remote = "none")
             /\ (c.func = "createDestBucket"
                    /\ FromTo \in BlobDestinations /\ c.pipeline # "nil") =>
                   /\ c.remote = "Create"
                   /\ c.result = "nil" <=>
                         \/ ~c.input.err
                         \/ c.input.StorageError
                               /\ (c.input.ServiceCode = "ContainerAlreadyExists"
                                      \/ c.input.StatusCode = 403)
                   /\ c.result # "nil" => c.result = "fail to create container"
             /\ c.result = "panic" => i = Len(calls)
    /\ destBlobPipeline # "nil" <=>
          (FromTo \in BlobDestinations
              /\ \E i \in 1 .. Len(calls) :
                    calls[i].func = "initEnumeratorCommon" /\ calls[i].result = "nil")

\* C39 witness: after initEnumeratorCommon an S3 -> blob enumerator got 403 from the
\* creation of the container and returned no error, then another creation failed
\* otherwise and returned the error.
C39_Witness ==
    /\ FromTo = "S3Blob"
    /\ Len(calls) = 3
    /\ calls[1].func = "initEnumeratorCommon"
    /\ calls[2].func = "createDestBucket"
    /\ calls[2].input.StatusCode = 403
    /\ calls[2].result = "nil"
    /\ calls[3].func = "createDestBucket"
    /\ calls[3].input.StatusCode = 500
    /\ calls[3].result = "fail to create container"

(* ---- the copy command as a whole ---- *)

\* C40: when HandleCopyCommand has announced the job as started (and so whenever it
\* polls the job's status or has returned) it has dispatched at least one part, the
\* last of them marked final, whatever the source and destination types are; a
\* background command never polls.
C40_DispatchBeforePolling ==
    /\ (copyPc \in {"started", "done"} \/ polls > 0) =>
          /\ Len(dispatched) >= 1
          /\ dispatched[Len(dispatched)].IsFinalPart
    /\ commandLineInput.IsaBackgroundOp => polls = 0

====
